---- MODULE Spec2Model ----
(***************************************************************************)
(* A model of asm-lsp: the message loop of src/bin/main.rs with its        *)
(* document store and syntax-tree store, and the resolution engine of      *)
(* src/lsp.rs (hover, completion, goto-definition, references, signature   *)
(* help, document symbols).                                                *)
(*                                                                         *)
(* Specifications:                                                         *)
(*   Spec        the message loop: open / change / close notifications and *)
(*               the feature requests, over the paired stores.             *)
(*   SpecEngine  the resolution engine: one request is resolved against a  *)
(*               configuration, a knowledge base and a parsed document.    *)
(*   SpecSigHelp signature help over a configuration and a document.       *)
(*   SpecSymbols document symbols over a syntax tree.                      *)
(*   SpecLoop    the message loop fed by the channel of the connection.    *)
(***************************************************************************)
EXTENDS Integers, Sequences, FiniteSets, TLC

VARIABLES
    text_store,   \* main_loop: Uri -> Some(the document's full text), or None
    tree_store,   \* main_loop: Uri -> Some(TreeEntry), or None
    running,      \* main_loop: TRUE while the `for msg in &connection.receiver` loop runs
    last,         \* the message handled last, and how its handling ended
    config,       \* the Config handed to the resolution engine
    doc,          \* the parsed document handed to the resolution engine
    resp,         \* the request resolved last, with its response
    inbox,        \* connection.receiver: the messages sent and not yet received
    handled       \* the messages the loop has handled, in the order it did

vars == <<text_store, tree_store, running, last, config, doc, resp, inbox, handled>>

(***************************************************************************)
(* Bounds of the model.                                                    *)
(***************************************************************************)
\* The bytes of all open documents together.
MaxTotalLen == 3
\* The largest line number and column an edit's positions name.
MaxLine == 1
MaxCol == 2

\* Option<T>: None is the empty sequence, Some(x) the sequence holding x.
None == <<>>
Some(x) == <<x>>
IsSome(o) == o # <<>>
Unwrap(o) == o[1]

Min(a, b) == IF a < b THEN a ELSE b
Max(a, b) == IF a < b THEN b ELSE a

(***************************************************************************)
(* Texts.  A text is a sequence of bytes; NL is the line feed.  All bytes   *)
(* are ASCII, so a UTF-16 column, a character and a byte offset coincide.  *)
(***************************************************************************)
NL == "\n"
Alphabet == {"a", "b", NL}
Uris == {"file:///x.s"}

RECURSIVE TextsOfLen(_)
TextsOfLen(n) ==
    IF n = 0 THEN {<<>>}
    ELSE {Append(t, c) : t \in TextsOfLen(n - 1), c \in Alphabet}

TextsUpTo(n) == UNION {TextsOfLen(k) : k \in 0..n}

\* The texts a document is opened with.
OpenTexts == TextsUpTo(MaxTotalLen)

\* FullTextDocument::line_offsets: the offset of the first byte of every line.
RECURSIVE line_offsets_from(_, _)
line_offsets_from(text, i) ==
    IF i > Len(text) THEN <<>>
    ELSE IF text[i] = NL THEN <<i>> \o line_offsets_from(text, i + 1)
    ELSE line_offsets_from(text, i + 1)

line_offsets(text) == <<0>> \o line_offsets_from(text, 1)

\* FullTextDocument::offset_at: a position to a byte offset, clamped to the
\* line and to the document.
offset_at(text, pos) ==
    LET lo == line_offsets(text)
    IN  IF pos.line >= Len(lo) THEN Len(text)
        ELSE LET line_offset == lo[pos.line + 1]
                 next_line_offset ==
                     IF pos.line + 1 < Len(lo) THEN lo[pos.line + 2] ELSE Len(text)
             IN  Min(line_offset + pos.character, next_line_offset)

\* FullTextDocument::position_at: a byte offset to a position.
position_at(text, offset) ==
    LET lo == line_offsets(text)
        off == Min(offset, Len(text))
        line == CHOOSE l \in 0..(Len(lo) - 1) :
                    /\ lo[l + 1] <= off
                    /\ (l + 1 < Len(lo) => off < lo[l + 2])
    IN  [line |-> line, character |-> off - lo[line + 1]]

(***************************************************************************)
(* Content changes (lsp_types::TextDocumentContentChangeEvent).            *)
(***************************************************************************)
Positions == [line : 0..MaxLine, character : 0..MaxCol]

\* A well-formed lsp_types::Range: its start is not after its end.
PosLeq(p, q) == p.line < q.line \/ (p.line = q.line /\ p.character <= q.character)
Ranges == {r \in [start : Positions, end : Positions] : PosLeq(r.start, r.end)}

InsertTexts == {<<>>, <<"a">>, <<"b">>, <<NL>>}
RangedChanges == [range : {Some(r) : r \in Ranges}, text : InsertTexts]
RangelessChanges == [range : {None}, text : {<<>>, <<"b">>}]
Changes == RangedChanges \cup RangelessChanges

\* The content_changes of one notification: one change, or an insertion at the
\* start of the document followed by one more change.
HeadChanges ==
    {c \in RangedChanges :
        /\ Unwrap(c.range).start = [line |-> 0, character |-> 0]
        /\ Unwrap(c.range).end = Unwrap(c.range).start
        /\ c.text # <<>>}
TailChanges ==
    RangelessChanges
    \cup {c \in RangedChanges :
            Unwrap(c.range).start = Unwrap(c.range).end /\ c.text = <<"b">>}
Batches ==
    {<<c>> : c \in Changes} \cup {<<h, c>> : h \in HeadChanges, c \in TailChanges}

\* FullTextDocument::update for one change: a ranged change replaces the bytes
\* between the offsets of its range, a change without a range replaces the text.
apply_change(text, change) ==
    IF change.range = None THEN change.text
    ELSE LET s == offset_at(text, Unwrap(change.range).start)
             e == offset_at(text, Unwrap(change.range).end)
         IN  SubSeq(text, 1, s) \o change.text \o SubSeq(text, e + 1, Len(text))

(***************************************************************************)
(* text_doc_change_to_ts_edit (lsp.rs): the tree_sitter::InputEdit of one  *)
(* change, computed against the document `text`; Err without a range.      *)
(***************************************************************************)
InvalidEditRange == "Invalid edit range"

\* A conversion that takes the replaced range to be empty.
text_doc_change_to_ts_edit_EmptyOldRange(change, text) ==
    IF change.range = None THEN [err |-> InvalidEditRange]
    ELSE LET start == Unwrap(change.range).start
             end == Unwrap(change.range).end
             start_byte == offset_at(text, start)
             new_end_byte == start_byte + Len(change.text)
             new_end_pos == position_at(text, new_end_byte)
         IN  [err |-> "",
              start_byte |-> start_byte,
              old_end_byte |-> start_byte,
              new_end_byte |-> new_end_byte,
              start_position |-> [row |-> start.line, column |-> start.character],
              old_end_position |-> [row |-> end.line, column |-> end.character],
              new_end_position |->
                  [row |-> new_end_pos.line, column |-> new_end_pos.character]]

text_doc_change_to_ts_edit(change, text) ==
    IF change.range = None THEN [err |-> InvalidEditRange]
    ELSE LET start == Unwrap(change.range).start
             end == Unwrap(change.range).end
             start_byte == offset_at(text, start)
             new_end_byte == start_byte + Len(change.text)
             new_end_pos == position_at(text, new_end_byte)
         IN  [err |-> "",
              start_byte |-> start_byte,
              old_end_byte |-> offset_at(text, end),
              new_end_byte |-> new_end_byte,
              start_position |-> [row |-> start.line, column |-> start.character],
              old_end_position |-> [row |-> end.line, column |-> end.character],
              new_end_position |->
                  [row |-> new_end_pos.line, column |-> new_end_pos.character]]

(***************************************************************************)
(* Syntax trees.  A tree is the leaves it holds, one per byte of the text  *)
(* it stands for; a leaf an edit hint has invalidated is Dirty.            *)
(***************************************************************************)
Dirty == "?"

\* Tree::edit: the leaves of the replaced byte range give way to new_end_byte -
\* start_byte invalidated leaves; the leaves after old_end_byte shift.
tree_edit(tree, edit) ==
    LET n == Len(tree.nodes)
        s == Min(edit.start_byte, n)
        oe == Min(Max(edit.old_end_byte, s), n)
    IN  [nodes |-> SubSeq(tree.nodes, 1, s)
                   \o [i \in 1..(edit.new_end_byte - edit.start_byte) |-> Dirty]
                   \o SubSeq(tree.nodes, oe + 1, n),
         edited |-> TRUE]

\* Parser::parse(text, None): every leaf is read from the text.
parse_scratch(text) == [nodes |-> text, edited |-> FALSE]

\* Parser::parse(text, old_tree): the leaves of old_tree no hint invalidated are
\* reused, the others are read from the text.
parse(text, old_tree) ==
    IF old_tree = None THEN parse_scratch(text)
    ELSE LET old == Unwrap(old_tree)
         IN  [nodes |-> [i \in 1..Len(text) |->
                            IF i <= Len(old.nodes) /\ old.nodes[i] # Dirty
                            THEN old.nodes[i]
                            ELSE text[i]],
              edited |-> FALSE]

(***************************************************************************)
(* The notification handlers (handle.rs).                                  *)
(***************************************************************************)
\* handle_did_open_text_document_notification: the document is created and
\* parsed for the first time.
handle_did_open_text_document_notification(texts, trees, uri, text) ==
    [text_store |-> [texts EXCEPT ![uri] = Some(text)],
     tree_store |-> [trees EXCEPT ![uri] = Some(parse(text, None))],
     err |-> ""]

\* The loop over params.content_changes: each change is converted against the
\* text the changes before it produced, applied to the text, and its hint applied
\* to the cached tree; the first change that cannot be converted ends the loop.
RECURSIVE apply_content_changes(_, _, _)
apply_content_changes(text, tree, changes) ==
    IF changes = <<>> THEN [text |-> text, tree |-> tree, err |-> ""]
    ELSE LET edit == text_doc_change_to_ts_edit(Head(changes), text)
         IN  IF edit.err # "" THEN [text |-> text, tree |-> tree, err |-> edit.err]
             ELSE apply_content_changes(apply_change(text, Head(changes)),
                                        tree_edit(tree, edit),
                                        Tail(changes))

\* handle_did_change_text_document_notification.
handle_did_change_text_document_notification(texts, trees, uri, changes) ==
    IF texts[uri] = None \/ trees[uri] = None
    THEN [text_store |-> texts, tree_store |-> trees, err |-> ""]
    ELSE LET r == apply_content_changes(Unwrap(texts[uri]), Unwrap(trees[uri]), changes)
         IN  [text_store |-> [texts EXCEPT ![uri] = Some(r.text)],
              tree_store |-> [trees EXCEPT ![uri] = Some(r.tree)],
              err |-> r.err]

\* handle_did_close_text_document_notification: text and tree are removed.
handle_did_close_text_document_notification(texts, trees, uri) ==
    [text_store |-> [texts EXCEPT ![uri] = None],
     tree_store |-> [trees EXCEPT ![uri] = None],
     err |-> ""]

(***************************************************************************)
(* main_loop (main.rs).                                                    *)
(***************************************************************************)
RECURSIVE SumLen(_, _)
SumLen(texts, uris) ==
    IF uris = {} THEN 0
    ELSE LET u == CHOOSE x \in uris : TRUE
         IN  (IF texts[u] = None THEN 0 ELSE Len(Unwrap(texts[u])))
             + SumLen(texts, uris \ {u})

TotalLen(texts) == SumLen(texts, Uris)

\* `queried`: the handler ran a query or a traversal on the tree; `pending`: the
\* cached tree carried edit hints when the handler re-parsed it.
Idle == [kind |-> "none", uri |-> "", err |-> "", queried |-> FALSE, pending |-> FALSE]

\* The stores a notification handler returns replace the loop's stores; an Err
\* leaves the loop through `?`.
Handled(kind, uri, r) ==
    /\ TotalLen(r.text_store) <= MaxTotalLen
    /\ text_store' = r.text_store
    /\ tree_store' = r.tree_store
    /\ running' = (r.err = "")
    /\ last' = [kind |-> kind, uri |-> uri, err |-> r.err,
                queried |-> FALSE, pending |-> FALSE]
    /\ UNCHANGED <<config, doc, resp, inbox, handled>>

DidOpenTextDocument ==
    /\ running
    /\ \E uri \in Uris, text \in OpenTexts :
          \E r \in {handle_did_open_text_document_notification(
                      text_store, tree_store, uri, text)} :
              Handled("didOpen", uri, r)

DidChangeTextDocument ==
    /\ running
    /\ \E uri \in Uris, changes \in Batches :
          \E r \in {handle_did_change_text_document_notification(
                      text_store, tree_store, uri, changes)} :
              Handled("didChange", uri, r)

\* A close that hands the handler's text store back and keeps the tree store.
DidCloseTextDocument_KeepsTree ==
    /\ running
    /\ \E uri \in Uris :
          \E r \in {handle_did_close_text_document_notification(
                      text_store, tree_store, uri)} :
              Handled("didClose", uri, [r EXCEPT !.tree_store = tree_store])

DidCloseTextDocument ==
    /\ running
    /\ \E uri \in Uris :
          \E r \in {handle_did_close_text_document_notification(
                      text_store, tree_store, uri)} :
              Handled("didClose", uri, r)

\* connection.handle_shutdown(&req)? is true: the loop returns Ok(()).
Shutdown ==
    /\ running
    /\ running' = FALSE
    /\ last' = [kind |-> "shutdown", uri |-> "", err |-> "",
                queried |-> FALSE, pending |-> FALSE]
    /\ UNCHANGED <<text_store, tree_store, config, doc, resp, inbox, handled>>

\* A feature request that queries the cached tree as it is.
FeatureRequest_NoReparse(uri, reaches_query) ==
    LET open == text_store[uri] # None /\ tree_store[uri] # None
        queried == reaches_query /\ open
    IN  /\ running
        /\ tree_store' = tree_store
        /\ last' = [kind |-> "request", uri |-> uri, err |-> "", queried |-> queried,
                    pending |-> queried /\ Unwrap(tree_store[uri]).edited]
        /\ UNCHANGED <<text_store, running, config, doc, resp, inbox, handled>>

\* A feature request on `uri`.  `reaches_query` is FALSE when the handler answers
\* before it needs the tree (an earlier hover stage hits, a completion trigger
\* character is answered from the tables).  Otherwise, when the document is open,
\* the cached tree is re-parsed from the stored text and the query runs on it.
FeatureRequest(uri, reaches_query) ==
    LET open == text_store[uri] # None /\ tree_store[uri] # None
        queried == reaches_query /\ open
    IN  /\ running
        /\ tree_store' =
              IF queried
              THEN [tree_store EXCEPT ![uri] = Some(parse(Unwrap(text_store[uri]), @))]
              ELSE tree_store
        /\ last' = [kind |-> "request", uri |-> uri, err |-> "", queried |-> queried,
                    pending |-> queried /\ Unwrap(tree_store[uri]).edited]
        /\ UNCHANGED <<text_store, running, config, doc, resp, inbox, handled>>

\* get_hover_resp reaches get_label_resp only when the instruction, directive and
\* register stages miss.
HoverRequest ==
    \E uri \in Uris, earlier_stage_hit \in BOOLEAN :
        FeatureRequest(uri, ~earlier_stage_hit)

\* get_comp_resp re-parses unless a trigger-character branch returns.
CompletionRequest ==
    \E uri \in Uris, trigger_branch_returns \in BOOLEAN :
        FeatureRequest(uri, ~trigger_branch_returns)

GotoDefinitionRequest == \E uri \in Uris : FeatureRequest(uri, TRUE)

DocumentSymbolRequest == \E uri \in Uris : FeatureRequest(uri, TRUE)

SignatureHelpRequest == \E uri \in Uris : FeatureRequest(uri, TRUE)

ReferencesRequest == \E uri \in Uris : FeatureRequest(uri, TRUE)

EngineIdle == <<>>

Init ==
    /\ text_store = [u \in Uris |-> None]
    /\ tree_store = [u \in Uris |-> None]
    /\ running = TRUE
    /\ last = Idle
    /\ config = EngineIdle
    /\ doc = EngineIdle
    /\ resp = EngineIdle
    /\ inbox = <<>>
    /\ handled = <<>>

Next ==
    \/ DidOpenTextDocument
    \/ DidChangeTextDocument
    \/ DidCloseTextDocument
    \/ HoverRequest
    \/ CompletionRequest
    \/ GotoDefinitionRequest
    \/ DocumentSymbolRequest
    \/ SignatureHelpRequest
    \/ ReferencesRequest
    \/ Shutdown

Spec == Init /\ [][Next]_vars

(***************************************************************************)
(* main_loop fed by the channel of the connection: the client sends        *)
(* messages, the loop receives them one by one.                            *)
(***************************************************************************)
MaxMessages == 4

Message(kind, uri, text, changes) ==
    [kind |-> kind, uri |-> uri, text |-> text, changes |-> changes]

\* The messages a client sends: notifications, a feature request, a shutdown
\* request, and a response, which the loop ignores.
LoopMessages ==
    UNION {{Message("didOpen", uri, <<"a">>, <<>>),
            Message("didChange", uri, <<>>,
                    <<[range |-> Some([start |-> [line |-> 0, character |-> 0],
                                       end |-> [line |-> 0, character |-> 0]]),
                       text |-> <<"b">>]>>),
            Message("didChange", uri, <<>>, <<[range |-> None, text |-> <<"b">>]>>),
            Message("didClose", uri, <<>>, <<>>),
            Message("request", uri, <<>>, <<>>),
            Message("shutdown", "", <<>>, <<>>),
            Message("response", "", <<>>, <<>>)} : uri \in Uris}

\* The `match msg` of main_loop: the stores after the handler of the message
\* has returned, and the handler's error.
dispatch(msg, texts, trees) ==
    CASE msg.kind = "didOpen" ->
            handle_did_open_text_document_notification(texts, trees, msg.uri, msg.text)
      [] msg.kind = "didChange" ->
            handle_did_change_text_document_notification(texts, trees, msg.uri,
                                                         msg.changes)
      [] msg.kind = "didClose" ->
            handle_did_close_text_document_notification(texts, trees, msg.uri)
      [] msg.kind = "request" ->
            [text_store |-> texts,
             tree_store |-> IF texts[msg.uri] # None /\ trees[msg.uri] # None
                            THEN [trees EXCEPT
                                    ![msg.uri] = Some(parse(Unwrap(texts[msg.uri]), @))]
                            ELSE trees,
             err |-> ""]
      [] OTHER -> [text_store |-> texts, tree_store |-> trees, err |-> ""]

InitLoop ==
    /\ text_store = [u \in Uris |-> None]
    /\ tree_store = [u \in Uris |-> None]
    /\ running = TRUE
    /\ last = Idle
    /\ config = EngineIdle
    /\ doc = EngineIdle
    /\ resp = EngineIdle
    /\ inbox = <<>>
    /\ handled = <<>>

\* The client puts a message on the channel.
ClientSend ==
    /\ Len(handled) + Len(inbox) < MaxMessages
    /\ \E msg \in LoopMessages : inbox' = Append(inbox, msg)
    /\ UNCHANGED <<text_store, tree_store, running, last, config, doc, resp, handled>>

\* A loop that takes the newest message of the channel.
Receive_NewestFirst ==
    /\ running
    /\ inbox # <<>>
    /\ LET msg == inbox[Len(inbox)]
           r == dispatch(msg, text_store, tree_store)
       IN  /\ inbox' = SubSeq(inbox, 1, Len(inbox) - 1)
           /\ handled' = Append(handled, msg)
           /\ text_store' = r.text_store
           /\ tree_store' = r.tree_store
           /\ running' = (r.err = "" /\ msg.kind # "shutdown")
           /\ last' = [kind |-> msg.kind, uri |-> msg.uri, err |-> r.err,
                       queried |-> FALSE, pending |-> FALSE]
    /\ UNCHANGED <<config, doc, resp>>

\* One turn of `for msg in &connection.receiver`: the oldest message is taken
\* and its handler runs to its end; a shutdown request returns Ok(()) and an
\* Err of a handler leaves the loop through `?`.
Receive ==
    /\ running
    /\ inbox # <<>>
    /\ LET msg == Head(inbox)
           r == dispatch(msg, text_store, tree_store)
       IN  /\ inbox' = Tail(inbox)
           /\ handled' = Append(handled, msg)
           /\ text_store' = r.text_store
           /\ tree_store' = r.tree_store
           /\ running' = (r.err = "" /\ msg.kind # "shutdown")
           /\ last' = [kind |-> msg.kind, uri |-> msg.uri, err |-> r.err,
                       queried |-> FALSE, pending |-> FALSE]
    /\ UNCHANGED <<config, doc, resp>>

NextLoop ==
    \/ ClientSend
    \/ Receive

SpecLoop == InitLoop /\ [][NextLoop]_vars

(***************************************************************************)
(* Claims about the message loop (checked under Spec).                     *)
(***************************************************************************)
IsOpen(uri) == text_store[uri] # None /\ tree_store[uri] # None
TextOf(uri) == Unwrap(text_store[uri])
TreeOf(uri) == Unwrap(tree_store[uri])

\* C5: a change notification holding a content change without a range is
\* rejected, and the tree cached for its URI is the same after the notification
\* as before it.
C5_RejectedChangeKeepsTree ==
    [][(last'.kind = "didChange" /\ last'.err = InvalidEditRange)
          => tree_store'[last'.uri] = tree_store[last'.uri]]_vars

\* C6: after any sequence of open, change and close notifications a URI has an
\* entry in the text store if and only if it has one in the tree store.
C6_StoresInLockstep ==
    \A uri \in Uris : (text_store[uri] = None) <=> (tree_store[uri] = None)

\* C6 witnesses: a document was closed and both entries are gone.
C6_Witness ==
    /\ last.kind = "didClose"
    /\ text_store[last.uri] = None
    /\ tree_store[last.uri] = None

\* C7: whenever a feature handler runs a query or a traversal for a URI, the
\* tree it uses was re-parsed in that request from the document's current text:
\* it carries no edit hint of an older text and spans the stored text.
C7_QueryUsesReparsedTree ==
    last.queried =>
        /\ IsOpen(last.uri)
        /\ ~TreeOf(last.uri).edited
        /\ Len(TreeOf(last.uri).nodes) = Len(TextOf(last.uri))

\* C7 witness: a handler queried a document whose cached tree carried the hints
\* of an earlier change notification.
C7_Witness == last.queried /\ last.pending

unwrap_or_UnsetEnabled(o, default) == IF o = None THEN TRUE ELSE Unwrap(o)

unwrap_or(o, default) == IF o = None THEN default ELSE Unwrap(o)

\* The Arch and Assembler tags, in the order of the response structs' fields.
Archs == <<"x86", "x86_64", "z80", "arm", "riscv">>
Assemblers == <<"gas", "go", "z80", "masm", "nasm">>

ToSet(s) == {s[i] : i \in DOMAIN s}

\* A gate: Some(true) when enabled; when disabled, unset or Some(false).
Gate(enabled, unset) ==
    IF enabled THEN Some(TRUE) ELSE IF unset THEN None ELSE Some(FALSE)

MkConfig(isas, assems, unset) ==
    [instruction_sets |->
        [x86 |-> Gate("x86" \in isas, unset),
         x86_64 |-> Gate("x86_64" \in isas, unset),
         z80 |-> Gate("z80" \in isas, unset),
         arm |-> Gate("arm" \in isas, unset),
         riscv |-> Gate("riscv" \in isas, unset)],
     assemblers |->
        [gas |-> Gate("gas" \in assems, unset),
         go |-> Gate("go" \in assems, unset),
         z80 |-> Gate("z80" \in assems, unset),
         masm |-> Gate("masm" \in assems, unset),
         nasm |-> Gate("nasm" \in assems, unset)]]

\* The configurations of the model: every set of architectures with a few sets
\* of assemblers, and every set of assemblers with a few sets of architectures.
FewIsas == {{}, {"x86"}, {"x86", "x86_64"}, {"z80", "arm"}, ToSet(Archs)}
FewAssems == {{}, {"gas"}, {"gas", "go"}, {"nasm"}, ToSet(Assemblers)}

Configs ==
    {MkConfig(isas, assems, unset) :
        isas \in SUBSET ToSet(Archs), assems \in FewAssems, unset \in BOOLEAN}
    \cup {MkConfig(isas, assems, unset) :
        isas \in FewIsas, assems \in SUBSET ToSet(Assemblers), unset \in BOOLEAN}

\* Config::is_isa_enabled.
is_isa_enabled(cfg, arch) ==
    CASE arch = "x86" -> unwrap_or(cfg.instruction_sets.x86, FALSE)
      [] arch = "x86_64" -> unwrap_or(cfg.instruction_sets.x86_64, FALSE)
      [] arch = "z80" -> unwrap_or(cfg.instruction_sets.z80, FALSE)
      [] arch = "arm" -> unwrap_or(cfg.instruction_sets.arm, FALSE)
      [] arch = "riscv" -> unwrap_or(cfg.instruction_sets.riscv, FALSE)

\* Config::is_assembler_enabled.
is_assembler_enabled(cfg, assem) ==
    CASE assem = "gas" -> unwrap_or(cfg.assemblers.gas, FALSE)
      [] assem = "go" -> unwrap_or(cfg.assemblers.go, FALSE)
      [] assem = "z80" -> unwrap_or(cfg.assemblers.z80, FALSE)
      [] assem = "masm" -> unwrap_or(cfg.assemblers.masm, FALSE)
      [] assem = "nasm" -> unwrap_or(cfg.assemblers.nasm, FALSE)

(***************************************************************************)
(* The knowledge base: a sample of the (tag, name) -> record maps that     *)
(* main.rs builds at startup, listed in the order the maps are filled.     *)
(***************************************************************************)
InstructionForm(gas_name, go_name, z80_name) ==
    [gas_name |-> gas_name, go_name |-> go_name, z80_name |-> z80_name]

\* An instruction with forms (x86, x86-64, Z80) or with assembly templates (ARM,
\* RISC-V).
Instruction(arch, name, forms) ==
    [tag |-> arch, name |-> name, forms |-> forms, asm_templates |-> <<>>]
TemplateInstruction(arch, name, asm_templates) ==
    [tag |-> arch, name |-> name, forms |-> <<>>, asm_templates |-> asm_templates]
Register(arch, name) == [tag |-> arch, name |-> name]
Directive(assem, name) == [tag |-> assem, name |-> name]

MovForms ==
    <<InstructionForm(Some("movl"), Some("MOVL"), None),
      InstructionForm(Some("movq"), None, None)>>
PushForms == <<InstructionForm(Some("pushq"), Some("PUSHQ"), None)>>
AddForms == <<InstructionForm(Some("add"), None, None),
              InstructionForm(None, Some("ADD"), None),
              InstructionForm(Some("addl"), Some("ADD"), None)>>

instruction_map ==
    <<Instruction("x86", "mov", MovForms),
      Instruction("x86_64", "mov", MovForms),
      Instruction("x86", "add", AddForms),
      Instruction("x86_64", "add", AddForms),
      Instruction("z80", "add", <<InstructionForm(None, None, Some("ADD"))>>),
      TemplateInstruction("arm", "add", <<"add rd, rn">>),
      TemplateInstruction("riscv", "add", <<"add rd, rs1, rs2">>),
      Instruction("arm", "b", <<>>),
      Instruction("x86", "push", PushForms),
      Instruction("x86_64", "push", PushForms)>>

register_map ==
    <<Register("x86", "sp"),
      Register("x86_64", "sp"),
      Register("z80", "sp"),
      Register("arm", "sp"),
      Register("riscv", "sp"),
      Register("z80", "b"),
      Register("x86_64", "rax")>>

\* main.rs loads directives for Gas, Masm and Nasm only.
directive_map ==
    <<Directive("gas", ".byte"),
      Directive("gas", ".data"),
      Directive("masm", ".data"),
      Directive("masm", "align"),
      Directive("nasm", "align"),
      Directive("nasm", "section"),
      Directive("nasm", ".nolist"),
      Directive("nasm", "%push")>>

\* HashMap::get(&(tag, word)).
get(map, tag, word) ==
    IF \E i \in DOMAIN map : map[i].tag = tag /\ map[i].name = word
    THEN Some(map[CHOOSE i \in DOMAIN map : map[i].tag = tag /\ map[i].name = word])
    ELSE None

(***************************************************************************)
(* Display of the records (types.rs): one paragraph per record.            *)
(***************************************************************************)
OrDash(o) == IF o = None THEN "-" ELSE Unwrap(o)

\* Display of an InstructionForm: its names on one line.
InstructionForm_fmt(form) ==
    OrDash(form.gas_name) \o " | " \o OrDash(form.go_name) \o " | " \o OrDash(form.z80_name)

RECURSIVE FormsFmt(_)
FormsFmt(forms) ==
    IF forms = <<>> THEN ""
    ELSE "\n  + " \o InstructionForm_fmt(Head(forms)) \o FormsFmt(Tail(forms))

Instruction_fmt(instr) ==
    instr.name \o " [" \o instr.tag \o "]" \o FormsFmt(instr.forms)
Register_fmt(reg) == reg.name \o " [" \o reg.tag \o "] register"
Directive_fmt(dir) == dir.name \o " [" \o dir.tag \o "] directive"

\* Hover { contents: Markup(MarkupContent { kind: Markdown, value }), range: None }
Hover(value) == [kind |-> "markdown", value |-> value]

(***************************************************************************)
(* Lookups gated by the configuration (lsp.rs).                            *)
(***************************************************************************)
\* The `lookup` closure of the three search functions.
lookup(map, tag, word, check) == IF check THEN get(map, tag, word) ELSE None

\* A search that consults the RISC-V table under the ARM gate.
search_for_instr_by_arch_RiscvUnderArmGate(word, instr_map, cfg) ==
    LET instr_sets == cfg.instruction_sets
    IN  [x86 |-> lookup(instr_map, "x86", word, unwrap_or(instr_sets.x86, FALSE)),
         x86_64 |-> lookup(instr_map, "x86_64", word, unwrap_or(instr_sets.x86_64, FALSE)),
         z80 |-> lookup(instr_map, "z80", word, unwrap_or(instr_sets.z80, FALSE)),
         arm |-> lookup(instr_map, "arm", word, unwrap_or(instr_sets.arm, FALSE)),
         riscv |-> lookup(instr_map, "riscv", word, unwrap_or(instr_sets.arm, FALSE))]

search_for_instr_by_arch(word, instr_map, cfg) ==
    LET instr_sets == cfg.instruction_sets
    IN  [x86 |-> lookup(instr_map, "x86", word, unwrap_or(instr_sets.x86, FALSE)),
         x86_64 |-> lookup(instr_map, "x86_64", word, unwrap_or(instr_sets.x86_64, FALSE)),
         z80 |-> lookup(instr_map, "z80", word, unwrap_or(instr_sets.z80, FALSE)),
         arm |-> lookup(instr_map, "arm", word, unwrap_or(instr_sets.arm, FALSE)),
         riscv |-> lookup(instr_map, "riscv", word, unwrap_or(instr_sets.riscv, FALSE))]

search_for_reg_by_arch(word, reg_map, cfg) ==
    LET instr_sets == cfg.instruction_sets
    IN  [x86 |-> lookup(reg_map, "x86", word, unwrap_or(instr_sets.x86, FALSE)),
         x86_64 |-> lookup(reg_map, "x86_64", word, unwrap_or(instr_sets.x86_64, FALSE)),
         z80 |-> lookup(reg_map, "z80", word, unwrap_or(instr_sets.z80, FALSE)),
         arm |-> lookup(reg_map, "arm", word, unwrap_or(instr_sets.arm, FALSE)),
         riscv |-> lookup(reg_map, "riscv", word, unwrap_or(instr_sets.riscv, FALSE))]

search_for_dir_by_assembler(word, dir_map, cfg) ==
    LET assemblers == cfg.assemblers
    IN  [gas |-> lookup(dir_map, "gas", word, unwrap_or(assemblers.gas, FALSE)),
         go |-> lookup(dir_map, "go", word, unwrap_or(assemblers.go, FALSE)),
         z80 |-> lookup(dir_map, "z80", word, unwrap_or(assemblers.z80, FALSE)),
         masm |-> lookup(dir_map, "masm", word, unwrap_or(assemblers.masm, FALSE)),
         nasm |-> lookup(dir_map, "nasm", word, unwrap_or(assemblers.nasm, FALSE))]

\* InstructionResp::has_resp, RegisterResp::has_resp.
ArchResp_has_resp(r) ==
    r.x86 # None \/ r.x86_64 # None \/ r.z80 # None \/ r.arm # None \/ r.riscv # None

\* DirectiveResp::has_resp.
DirectiveResp_has_resp(r) ==
    r.gas # None \/ r.go # None \/ r.z80 # None \/ r.masm # None \/ r.nasm # None

\* A filter that drops the forms no enabled dialect names and leaves every name
\* slot of the kept forms as it is.
RECURSIVE filter_forms_KeepsSlots(_, _)
filter_forms_KeepsSlots(forms, cfg) ==
    IF forms = <<>> THEN <<>>
    ELSE LET form == Head(forms)
             keep == \/ (form.gas_name # None /\ unwrap_or(cfg.assemblers.gas, FALSE))
                     \/ (form.go_name # None /\ unwrap_or(cfg.assemblers.go, FALSE))
                     \/ (form.z80_name # None /\ unwrap_or(cfg.instruction_sets.z80, FALSE))
         IN  (IF keep THEN <<form>> ELSE <<>>) \o filter_forms_KeepsSlots(Tail(forms), cfg)

\* instr_filter_targets: the forms no enabled dialect names are dropped, and the
\* name slots of the disabled assemblers are emptied.
RECURSIVE filter_forms(_, _)
filter_forms(forms, cfg) ==
    IF forms = <<>> THEN <<>>
    ELSE LET form == Head(forms)
             gas == unwrap_or(cfg.assemblers.gas, FALSE)
             go == unwrap_or(cfg.assemblers.go, FALSE)
             keep == \/ (form.gas_name # None /\ gas)
                     \/ (form.go_name # None /\ go)
                     \/ (form.z80_name # None /\ unwrap_or(cfg.instruction_sets.z80, FALSE))
             filtered == [form EXCEPT !.gas_name = IF gas THEN @ ELSE None,
                                      !.go_name = IF go THEN @ ELSE None]
         IN  (IF keep THEN <<filtered>> ELSE <<>>) \o filter_forms(Tail(forms), cfg)

instr_filter_targets(instr, cfg) ==
    [instr EXCEPT !.forms = filter_forms(instr.forms, cfg)]

\* `write!(f, "{}{}", if has_entry { "\n\n" } else { "" }, resp)`
BlankLine == "\n\n"
Sep(has_entry) == IF has_entry THEN BlankLine ELSE ""

get_instr_hover_resp(word, instr_map, cfg) ==
    LET instr_resp == search_for_instr_by_arch(word, instr_map, cfg)
        v1 == IF instr_resp.x86 # None
              THEN Instruction_fmt(instr_filter_targets(Unwrap(instr_resp.x86), cfg))
              ELSE ""
        h1 == instr_resp.x86 # None
        v2 == IF instr_resp.x86_64 # None
              THEN v1 \o Sep(h1)
                   \o Instruction_fmt(instr_filter_targets(Unwrap(instr_resp.x86_64), cfg))
              ELSE v1
        h2 == h1 \/ instr_resp.x86_64 # None
        v3 == IF instr_resp.z80 # None
              THEN v2 \o Sep(h2) \o Instruction_fmt(Unwrap(instr_resp.z80)) ELSE v2
        h3 == h2 \/ instr_resp.z80 # None
        v4 == IF instr_resp.arm # None
              THEN v3 \o Sep(h3) \o Instruction_fmt(Unwrap(instr_resp.arm)) ELSE v3
        h4 == h3 \/ instr_resp.arm # None
        value == IF instr_resp.riscv # None
                 THEN v4 \o Sep(h4) \o Instruction_fmt(Unwrap(instr_resp.riscv)) ELSE v4
    IN  IF ~ArchResp_has_resp(instr_resp) THEN None ELSE Some(Hover(value))

\* A Display that never sets has_entry.
RegisterResp_fmt_NoSeparator(r) ==
    (IF r.x86 # None THEN Register_fmt(Unwrap(r.x86)) ELSE "")
    \o (IF r.x86_64 # None THEN Register_fmt(Unwrap(r.x86_64)) ELSE "")
    \o (IF r.z80 # None THEN Register_fmt(Unwrap(r.z80)) ELSE "")
    \o (IF r.arm # None THEN Register_fmt(Unwrap(r.arm)) ELSE "")
    \o (IF r.riscv # None THEN Register_fmt(Unwrap(r.riscv)) ELSE "")

\* impl Display for RegisterResp.
RegisterResp_fmt(r) ==
    LET v1 == IF r.x86 # None THEN Sep(FALSE) \o Register_fmt(Unwrap(r.x86)) ELSE ""
        h1 == r.x86 # None
        v2 == IF r.x86_64 # None
              THEN v1 \o Sep(h1) \o Register_fmt(Unwrap(r.x86_64)) ELSE v1
        h2 == h1 \/ r.x86_64 # None
        v3 == IF r.z80 # None THEN v2 \o Sep(h2) \o Register_fmt(Unwrap(r.z80)) ELSE v2
        h3 == h2 \/ r.z80 # None
        v4 == IF r.arm # None THEN v3 \o Sep(h3) \o Register_fmt(Unwrap(r.arm)) ELSE v3
        h4 == h3 \/ r.arm # None
    IN  IF r.riscv # None THEN v4 \o Sep(h4) \o Register_fmt(Unwrap(r.riscv)) ELSE v4

\* impl Display for DirectiveResp.
DirectiveResp_fmt(r) ==
    LET v1 == IF r.gas # None THEN Sep(FALSE) \o Directive_fmt(Unwrap(r.gas)) ELSE ""
        h1 == r.gas # None
        v2 == IF r.go # None THEN v1 \o Sep(h1) \o Directive_fmt(Unwrap(r.go)) ELSE v1
        h2 == h1 \/ r.go # None
        v3 == IF r.z80 # None THEN v2 \o Sep(h2) \o Directive_fmt(Unwrap(r.z80)) ELSE v2
        h3 == h2 \/ r.z80 # None
        v4 == IF r.masm # None THEN v3 \o Sep(h3) \o Directive_fmt(Unwrap(r.masm)) ELSE v3
        h4 == h3 \/ r.masm # None
    IN  IF r.nasm # None THEN v4 \o Sep(h4) \o Directive_fmt(Unwrap(r.nasm)) ELSE v4

get_reg_hover_resp(word, reg_map, cfg) ==
    LET reg_resp == search_for_reg_by_arch(word, reg_map, cfg)
    IN  IF ~ArchResp_has_resp(reg_resp) THEN None
        ELSE Some(Hover(RegisterResp_fmt(reg_resp)))

get_directive_hover_resp(word, dir_map, cfg) ==
    LET dir_resp == search_for_dir_by_assembler(word, dir_map, cfg)
    IN  IF ~DirectiveResp_has_resp(dir_resp) THEN None
        ELSE Some(Hover(DirectiveResp_fmt(dir_resp)))

(***************************************************************************)
(* Documents as the grammar parses them.  A document is a sequence of      *)
(* lines, each of one syntactic form, with or without a final line feed:   *)
(*   label       name:                  (label (ident (reg (word))))       *)
(*   label_data  name: directive data   the label, then (meta (int))       *)
(*   instr       name operand           (instruction kind: (word) (ident)) *)
(*   directive   name                   (meta kind: (meta_ident))          *)
(***************************************************************************)
MaxDocLines == 2

LabelLine(name) ==
    [kind |-> "label", name |-> name, directive |-> "", data |-> "", operand |-> ""]
LabelDataLine(name, directive, data) ==
    [kind |-> "label_data", name |-> name, directive |-> directive, data |-> data,
     operand |-> ""]
InstrLine(name, operand) ==
    [kind |-> "instr", name |-> name, directive |-> "", data |-> "", operand |-> operand]
DirectiveLine(name) ==
    [kind |-> "directive", name |-> name, directive |-> "", data |-> "", operand |-> ""]

LineForms ==
    {LabelLine("lp"),
     LabelDataLine("sp", ".byte", "7"),
     LabelDataLine("_Z1fv", ".byte", "9"),
     InstrLine("push", "lp"),
     DirectiveLine(".data")}

RECURSIVE LinesOfLen(_)
LinesOfLen(n) ==
    IF n = 0 THEN {<<>>}
    ELSE {Append(ls, l) : ls \in LinesOfLen(n - 1), l \in LineForms}

Docs ==
    {[lines |-> ls, eof_newline |-> nl] :
        ls \in UNION {LinesOfLen(n) : n \in 0..MaxDocLines}, nl \in BOOLEAN}
    \ {[lines |-> <<>>, eof_newline |-> TRUE]}

EmptyDoc == [lines |-> <<>>, eof_newline |-> FALSE]

\* A row that holds one instruction or more, each a mnemonic with or without
\* an operand.
InstrsLine(instrs) == [kind |-> "instrs", instrs |-> instrs]

InstrText(i) == i.name \o (IF i.operand = "" THEN "" ELSE " " \o i.operand)

RECURSIVE InstrsText(_)
InstrsText(instrs) ==
    IF Len(instrs) = 1 THEN InstrText(instrs[1])
    ELSE InstrText(Head(instrs)) \o "; " \o InstrsText(Tail(instrs))

LineText(l) ==
    CASE l.kind = "label" -> l.name \o ":"
      [] l.kind = "instrs" -> InstrsText(l.instrs)
      [] l.kind = "label_data" -> l.name \o ": " \o l.directive \o " " \o l.data
      [] l.kind = "instr" -> l.name \o " " \o l.operand
      [] l.kind = "directive" -> l.name

RECURSIVE JoinLines(_)
JoinLines(lines) ==
    IF lines = <<>> THEN ""
    ELSE IF Len(lines) = 1 THEN LineText(lines[1])
    ELSE LineText(Head(lines)) \o NL \o JoinLines(Tail(lines))

\* FullTextDocument::get_content(None): the text of the document.
get_content(d) == JoinLines(d.lines) \o (IF d.eof_newline THEN NL ELSE "")

\* The offset of the first byte of line `row` (rows count from 0).
LineStart(d, row) ==
    IF row = 0 THEN 0 ELSE Len(JoinLines(SubSeq(d.lines, 1, row))) + 1

\* A node of the tree: its kind, its points and its bytes.
Node(d, kind, row, start_column, end_column) ==
    [kind |-> kind, row |-> row,
     start_column |-> start_column, end_column |-> end_column,
     start_byte |-> LineStart(d, row) + start_column,
     end_byte |-> LineStart(d, row) + end_column]

\* Node::utf8_text.
utf8_text(node, text) == SubSeq(text, node.start_byte + 1, node.end_byte)

LabelNode(d, row) == Node(d, "label", row, 0, Len(d.lines[row + 1].name) + 1)
LabelIdentNode(d, row) == Node(d, "ident", row, 0, Len(d.lines[row + 1].name))
MetaNode(d, row) ==
    LET l == d.lines[row + 1]
    IN  IF l.kind = "directive" THEN Node(d, "meta", row, 0, Len(l.name))
        ELSE Node(d, "meta", row, Len(l.name) + 2, Len(LineText(l)))
MetaIdentNode(d, row) ==
    LET l == d.lines[row + 1]
    IN  IF l.kind = "directive" THEN Node(d, "meta_ident", row, 0, Len(l.name))
        ELSE Node(d, "meta_ident", row, Len(l.name) + 2,
                  Len(l.name) + 2 + Len(l.directive))
InstrWordNode(d, row) == Node(d, "word", row, 0, Len(d.lines[row + 1].name))
OperandIdentNode(d, row) ==
    LET l == d.lines[row + 1]
    IN  Node(d, "ident", row, Len(l.name) + 1, Len(LineText(l)))
OperandRegNode(d, row) ==
    LET l == d.lines[row + 1]
    IN  Node(d, "reg", row, Len(l.name) + 1, Len(LineText(l)))

\* The mnemonic of the k-th instruction of a row of instructions.
InstrsWordNode(d, row, k) ==
    LET instrs == d.lines[row + 1].instrs
        start == IF k = 1 THEN 0 ELSE Len(InstrsText(SubSeq(instrs, 1, k - 1))) + 2
    IN  Node(d, "word", row, start, start + Len(instrs[k].name))

RECURSIVE Flatten(_)
Flatten(seqs) == IF seqs = <<>> THEN <<>> ELSE Head(seqs) \o Flatten(Tail(seqs))

Rows(d) == 0..(Len(d.lines) - 1)
HasLabel(l) == l.kind \in {"label", "label_data"}

\* The matches of a query over the whole tree are listed in document order, row
\* by row; a match is the sequence of its captures.

\* ((label (ident) @label) . (meta ([(int) (string) (float)])) @data)
QUERY_LABEL_DATA(d) ==
    LET M(row) == IF d.lines[row + 1].kind = "label_data"
                  THEN <<(<<LabelIdentNode(d, row), MetaNode(d, row)>>)>>
                  ELSE <<>>
    IN  Flatten([i \in 1..Len(d.lines) |-> M(i - 1)])

\* (label (ident) @label)
QUERY_LABEL_IDENT(d) ==
    LET M(row) == IF HasLabel(d.lines[row + 1])
                  THEN <<(<<LabelIdentNode(d, row)>>)>> ELSE <<>>
    IN  Flatten([i \in 1..Len(d.lines) |-> M(i - 1)])

\* (label) @label, and (label (ident (reg (word)))) @label
QUERY_LABEL(d) ==
    LET M(row) == IF HasLabel(d.lines[row + 1])
                  THEN <<(<<LabelNode(d, row)>>)>> ELSE <<>>
    IN  Flatten([i \in 1..Len(d.lines) |-> M(i - 1)])

\* (ident) @ident
QUERY_WORD(d) ==
    LET M(row) == IF HasLabel(d.lines[row + 1])
                  THEN <<(<<LabelIdentNode(d, row)>>)>>
                  ELSE IF d.lines[row + 1].kind = "instr"
                  THEN <<(<<OperandIdentNode(d, row)>>)>>
                  ELSE <<>>
    IN  Flatten([i \in 1..Len(d.lines) |-> M(i - 1)])

\* (meta kind: (meta_ident) @directive), within the point range of one line.
QUERY_DIRECTIVE(d, cursor_line) ==
    IF cursor_line \in Rows(d)
       /\ d.lines[cursor_line + 1].kind \in {"label_data", "directive"}
    THEN <<(<<MetaIdentNode(d, cursor_line)>>)>>
    ELSE <<>>

\* QUERY_INSTR_ANY within the point range of one line: the first alternative
\* captures the mnemonic, the second the mnemonic and the operand.
QUERY_INSTR_ANY(d, cursor_line) ==
    IF cursor_line \in Rows(d) /\ d.lines[cursor_line + 1].kind = "instr"
    THEN <<(<<InstrWordNode(d, cursor_line)>>),
           (<<InstrWordNode(d, cursor_line), OperandRegNode(d, cursor_line)>>)>>
    ELSE <<>>

\* (instruction kind: (word) @instr_name), within the point range of one line.
QUERY_INSTR_ANY_ARGS(d, cursor_line) ==
    IF cursor_line \in Rows(d)
    THEN LET l == d.lines[cursor_line + 1]
         IN  IF l.kind = "instr" THEN <<(<<InstrWordNode(d, cursor_line)>>)>>
             ELSE IF l.kind = "instrs"
             THEN [k \in DOMAIN l.instrs |-> <<InstrsWordNode(d, cursor_line, k)>>]
             ELSE <<>>
    ELSE <<>>

(***************************************************************************)
(* The label, demangle and include-file stages of hover (lsp.rs).          *)
(***************************************************************************)
\* The grave accent that opens and closes inline code in markdown; a TLA+ string
\* cannot hold one, so the apostrophe stands for it.
CodeMark == "'"

\* str::trim_start_matches(c).
RECURSIVE trim_start_matches(_, _)
trim_start_matches(s, c) ==
    IF Len(s) > 0 /\ SubSeq(s, 1, 1) = c
    THEN trim_start_matches(SubSeq(s, 2, Len(s)), c)
    ELSE s

\* A loop over the matches of QUERY_LABEL_DATA that strips one leading '.' from
\* the word instead of the leading '.'s from the label.
RECURSIVE label_data_of_StripsWord(_, _, _)
label_data_of_StripsWord(word, text, matches) ==
    IF matches = <<>> THEN None
    ELSE LET caps == Head(matches)
             label == utf8_text(caps[1], text)
             data == utf8_text(caps[2], text)
             stripped == IF Len(word) > 0 /\ SubSeq(word, 1, 1) = "."
                         THEN SubSeq(word, 2, Len(word)) ELSE word
         IN  IF Len(caps) # 2
                \/ caps[1].end_byte >= Len(text)
                \/ caps[2].end_byte >= Len(text)
             THEN label_data_of_StripsWord(word, text, Tail(matches))
             ELSE IF label = word \/ label = stripped
             THEN Some(Hover(CodeMark \o data \o CodeMark))
             ELSE label_data_of_StripsWord(word, text, Tail(matches))

\* The loop over the matches of QUERY_LABEL_DATA: a match with a capture that
\* ends at or after the end of the document is skipped, the first match whose
\* label is the word answers.
RECURSIVE label_data_of(_, _, _)
label_data_of(word, text, matches) ==
    IF matches = <<>> THEN None
    ELSE LET caps == Head(matches)
             label == utf8_text(caps[1], text)
             data == utf8_text(caps[2], text)
         IN  IF Len(caps) # 2
                \/ caps[1].end_byte >= Len(text)
                \/ caps[2].end_byte >= Len(text)
             THEN label_data_of(word, text, Tail(matches))
             ELSE IF label = word \/ trim_start_matches(label, ".") = word
             THEN Some(Hover(CodeMark \o data \o CodeMark))
             ELSE label_data_of(word, text, Tail(matches))

get_label_resp(word, d) == label_data_of(word, get_content(d), QUERY_LABEL_DATA(d))

\* Name::demangle of the symbolic crate, on the names of the model.
demangle(word) == IF word = "_Z1fv" THEN Some("f()") ELSE None

get_demangle_resp(word) ==
    LET demangled == demangle(word)
    IN  IF demangled # None THEN Some(Hover(Unwrap(demangled))) ELSE None

\* include_dirs[SourceFile::All]: the directories searched and the files in them.
include_dirs ==
    <<[path |-> "/usr/include", files |-> <<"stdio.h">>],
      [path |-> "/usr/local/include", files |-> <<"_Z1fv", "stdio.h">>]>>

RECURSIVE paths_in_dir(_, _, _)
paths_in_dir(path, files, filename) ==
    IF files = <<>> THEN ""
    ELSE (IF Head(files) = filename
          THEN "file://" \o path \o "/" \o Head(files) \o NL ELSE "")
         \o paths_in_dir(path, Tail(files), filename)

RECURSIVE paths_in_dirs(_, _)
paths_in_dirs(dirs, filename) ==
    IF dirs = <<>> THEN ""
    ELSE paths_in_dir(Head(dirs).path, Head(dirs).files, filename)
         \o paths_in_dirs(Tail(dirs), filename)

get_include_resp(filename, dirs) ==
    LET paths == paths_in_dirs(dirs, filename)
    IN  IF paths = "" THEN None ELSE Some(Hover(paths))

\* The directive lookup of get_hover_resp: GAS or MASM try the bare word; else
\* NASM tries the bare word, then the word with a '%' before it.
hover_directive_lookup(word, dir_map, cfg) ==
    IF unwrap_or(cfg.assemblers.gas, FALSE) \/ unwrap_or(cfg.assemblers.masm, FALSE)
    THEN get_directive_hover_resp(word, dir_map, cfg)
    ELSE IF unwrap_or(cfg.assemblers.nasm, FALSE)
    THEN LET directive_lookup == get_directive_hover_resp(word, dir_map, cfg)
         IN  IF directive_lookup # None THEN directive_lookup
             ELSE get_directive_hover_resp("%" \o word, dir_map, cfg)
    ELSE None

\* A hover that asks the document's labels before the register tables.
get_hover_resp_LabelBeforeRegister(cfg, word, d, instr_map, reg_map, dir_map, dirs) ==
    LET instr_lookup == get_instr_hover_resp(word, instr_map, cfg)
        directive_lookup == hover_directive_lookup(word, dir_map, cfg)
        reg_lookup == get_reg_hover_resp(word, reg_map, cfg)
        label_data == get_label_resp(word, d)
        demang == get_demangle_resp(word)
        include_path == get_include_resp(word, dirs)
    IN  IF instr_lookup # None THEN instr_lookup
        ELSE IF directive_lookup # None THEN directive_lookup
        ELSE IF label_data # None THEN label_data
        ELSE IF reg_lookup # None THEN reg_lookup
        ELSE IF demang # None THEN demang
        ELSE IF include_path # None THEN include_path
        ELSE None

get_hover_resp(cfg, word, d, instr_map, reg_map, dir_map, dirs) ==
    LET instr_lookup == get_instr_hover_resp(word, instr_map, cfg)
        directive_lookup == hover_directive_lookup(word, dir_map, cfg)
        reg_lookup == get_reg_hover_resp(word, reg_map, cfg)
        label_data == get_label_resp(word, d)
        demang == get_demangle_resp(word)
        include_path == get_include_resp(word, dirs)
    IN  IF instr_lookup # None THEN instr_lookup
        ELSE IF directive_lookup # None THEN directive_lookup
        ELSE IF reg_lookup # None THEN reg_lookup
        ELSE IF label_data # None THEN label_data
        ELSE IF demang # None THEN demang
        ELSE IF include_path # None THEN include_path
        ELSE None

(***************************************************************************)
(* Completion (lsp.rs).                                                    *)
(***************************************************************************)
CompletionItem(label, kind, documentation) ==
    [label |-> label, kind |-> kind, documentation |-> documentation]

Reverse(s) == [i \in 1..Len(s) |-> s[Len(s) + 1 - i]]

\* get_completes: one (tag, item) per entry of the map, in the map's iteration
\* order, which is the listing order or its reverse.
instr_comps(rev) ==
    LET items == [i \in DOMAIN instruction_map |->
                    [tag |-> instruction_map[i].tag,
                     item |-> CompletionItem(instruction_map[i].name, "OPERATOR",
                                             Instruction_fmt(instruction_map[i]))]]
    IN  IF rev THEN Reverse(items) ELSE items

reg_comps(rev) ==
    LET items == [i \in DOMAIN register_map |->
                    [tag |-> register_map[i].tag,
                     item |-> CompletionItem(register_map[i].name, "VARIABLE",
                                             Register_fmt(register_map[i]))]]
    IN  IF rev THEN Reverse(items) ELSE items

dir_comps(rev) ==
    LET items == [i \in DOMAIN directive_map |->
                    [tag |-> directive_map[i].tag,
                     item |-> CompletionItem(directive_map[i].name, "OPERATOR",
                                             Directive_fmt(directive_map[i]))]]
    IN  IF rev THEN Reverse(items) ELSE items

Labels(items) == {items[i].label : i \in DOMAIN items}

\* The filter closure of filtered_comp_list_arch; `kept` holds the items kept so
\* far, whose labels are the `seen` set.
RECURSIVE filter_arch_from(_, _, _)
filter_arch_from(comps, cfg, kept) ==
    IF comps = <<>> THEN kept
    ELSE LET comp_item == Head(comps).item
         IN  IF ~is_isa_enabled(cfg, Head(comps).tag)
             THEN filter_arch_from(Tail(comps), cfg, kept)
             ELSE IF comp_item.label \in Labels(kept)
             THEN filter_arch_from(Tail(comps), cfg, kept)
             ELSE filter_arch_from(Tail(comps), cfg, Append(kept, comp_item))

filtered_comp_list_arch(comps, cfg) == filter_arch_from(comps, cfg, <<>>)

starts_with(s, c) == Len(s) > 0 /\ SubSeq(s, 1, 1) = c

\* A filter that ignores the required prefix.
RECURSIVE filter_assem_from_AnyPrefix(_, _, _, _)
filter_assem_from_AnyPrefix(comps, cfg, prefix, kept) ==
    IF comps = <<>> THEN kept
    ELSE LET comp_item == Head(comps).item
         IN  IF ~is_assembler_enabled(cfg, Head(comps).tag)
             THEN filter_assem_from_AnyPrefix(Tail(comps), cfg, prefix, kept)
             ELSE IF comp_item.label \in Labels(kept)
             THEN filter_assem_from_AnyPrefix(Tail(comps), cfg, prefix, kept)
             ELSE filter_assem_from_AnyPrefix(Tail(comps), cfg, prefix,
                                              Append(kept, comp_item))

\* The filter closure of filtered_comp_list_assem.
RECURSIVE filter_assem_from(_, _, _, _)
filter_assem_from(comps, cfg, prefix, kept) ==
    IF comps = <<>> THEN kept
    ELSE LET comp_item == Head(comps).item
         IN  IF ~is_assembler_enabled(cfg, Head(comps).tag)
             THEN filter_assem_from(Tail(comps), cfg, prefix, kept)
             ELSE IF prefix # None /\ ~starts_with(comp_item.label, Unwrap(prefix))
             THEN filter_assem_from(Tail(comps), cfg, prefix, kept)
             ELSE IF comp_item.label \in Labels(kept)
             THEN filter_assem_from(Tail(comps), cfg, prefix, kept)
             ELSE filter_assem_from(Tail(comps), cfg, prefix, Append(kept, comp_item))

filtered_comp_list_assem(comps, cfg, prefix) == filter_assem_from(comps, cfg, prefix, <<>>)

\* cursor_matches!: the capture lies on the cursor's line and spans its column,
\* both ends included.
cursor_matches(cursor_line, cursor_char, node) ==
    /\ node.row = cursor_line
    /\ node.start_column <= cursor_char
    /\ node.end_column >= cursor_char

CompletionList(items) == [is_incomplete |-> TRUE, items |-> items]

\* The captures of a sequence of matches, each with its index in its match.
NumberedCaptures(matches) ==
    Flatten([m \in DOMAIN matches |->
                [c \in DOMAIN matches[m] |->
                    [cap_num |-> c - 1, node |-> matches[m][c]]]])

\* The first capture, in iteration order, the cursor lies in.
RECURSIVE first_cursor_match(_, _, _)
first_cursor_match(caps, cursor_line, cursor_char) ==
    IF caps = <<>> THEN None
    ELSE IF cursor_matches(cursor_line, cursor_char, Head(caps).node)
    THEN Some(Head(caps))
    ELSE first_cursor_match(Tail(caps), cursor_line, cursor_char)

\* The `labels` HashSet: the text of every label capture that ends before the
\* end of the document, once each.
RECURSIVE collect_labels(_, _, _)
collect_labels(caps, text, labels) ==
    IF caps = <<>> THEN labels
    ELSE LET cap == Head(caps).node
             label == utf8_text(cap, text)
         IN  IF cap.end_byte >= Len(text) \/ label \in ToSet(labels)
             THEN collect_labels(Tail(caps), text, labels)
             ELSE collect_labels(Tail(caps), text, Append(labels, label))

\* A trigger character read without looking at the trigger kind.
trigger_character_IgnoresKind(params) ==
    IF params.context # None
    THEN Unwrap(params.context).trigger_character
    ELSE None

\* params.context names a trigger character.
trigger_character(params) ==
    IF params.context # None
       /\ Unwrap(params.context).trigger_kind = "TRIGGER_CHARACTER"
    THEN Unwrap(params.context).trigger_character
    ELSE None

\* The items of the '%' branch with the registers appended whatever the
\* architectures enabled.
percent_trigger_items_RegistersAlways(cfg, dirs, regs) ==
    filtered_comp_list_arch(regs, cfg)
    \o (IF unwrap_or(cfg.assemblers.nasm, FALSE)
        THEN filtered_comp_list_assem(dirs, cfg, Some("%")) ELSE <<>>)

\* The `items` vector of the Some("%") arm of get_comp_resp.
percent_trigger_items(cfg, dirs, regs) ==
    (IF \/ unwrap_or(cfg.instruction_sets.x86, FALSE)
        \/ unwrap_or(cfg.instruction_sets.x86_64, FALSE)
     THEN filtered_comp_list_arch(regs, cfg) ELSE <<>>)
    \o (IF unwrap_or(cfg.assemblers.nasm, FALSE)
        THEN filtered_comp_list_assem(dirs, cfg, Some("%")) ELSE <<>>)

\* The pattern queries get_comp_resp runs when no capture of the first one holds
\* the cursor, in the order it runs them.
AllCompletionQueries == <<"QUERY_DIRECTIVE", "QUERY_LABEL", "QUERY_INSTR_ANY">>

\* The items of a capture with the two lists exchanged: registers and labels
\* for capture 0, instructions and directives for the others.
capture_items_Exchanged(is_instr, cfg, instrs, dirs, regs, label_items) ==
    IF is_instr
    THEN filtered_comp_list_arch(regs, cfg) \o label_items
    ELSE filtered_comp_list_arch(instrs, cfg) \o filtered_comp_list_assem(dirs, cfg, None)

\* The `items` vector made for the capture the cursor lies in: the instructions
\* and then the directives for capture 0, the registers and then the labels for
\* any other capture.
capture_items(is_instr, cfg, instrs, dirs, regs, label_items) ==
    IF is_instr
    THEN filtered_comp_list_arch(instrs, cfg) \o filtered_comp_list_assem(dirs, cfg, None)
    ELSE filtered_comp_list_arch(regs, cfg) \o label_items

\* get_comp_resp.  `set_rev` tells the iteration order of the `labels` HashSet.
\* Next to the response the result names the branch that answered, whether the
\* tree was re-parsed (line 1264) and the pattern queries that were run.
get_comp_resp(d, params, cfg, instrs, dirs, regs, set_rev) ==
    LET cursor_line == params.position.line
        cursor_char == params.position.character
        trigger == trigger_character(params)
        percent_items == percent_trigger_items(cfg, dirs, regs)
        dot == \/ unwrap_or(cfg.assemblers.gas, FALSE)
               \/ unwrap_or(cfg.assemblers.masm, FALSE)
               \/ unwrap_or(cfg.assemblers.nasm, FALSE)
        curr_doc == get_content(d)
        directive_hit ==
            first_cursor_match(NumberedCaptures(QUERY_DIRECTIVE(d, cursor_line)),
                               cursor_line, cursor_char)
        found == collect_labels(NumberedCaptures(QUERY_LABEL_IDENT(d)), curr_doc, <<>>)
        labels == IF set_rev THEN Reverse(found) ELSE found
        instr_hit ==
            first_cursor_match(NumberedCaptures(QUERY_INSTR_ANY(d, cursor_line)),
                               cursor_line, cursor_char)
        label_items == [i \in DOMAIN labels |-> CompletionItem(labels[i], "VARIABLE", "")]
    IN  IF trigger = Some("%") /\ percent_items # <<>>
        THEN [branch |-> "percent", parsed |-> FALSE, queries |-> <<>>,
              list |-> Some(CompletionList(percent_items))]
        ELSE IF trigger = Some(".") /\ dot
        THEN [branch |-> "dot", parsed |-> FALSE, queries |-> <<>>,
              list |-> Some(CompletionList(filtered_comp_list_assem(dirs, cfg, Some("."))))]
        ELSE IF directive_hit # None
        THEN [branch |-> "directive", parsed |-> TRUE,
              queries |-> <<"QUERY_DIRECTIVE">>,
              list |-> Some(CompletionList(filtered_comp_list_assem(dirs, cfg, None)))]
        ELSE IF instr_hit # None /\ Unwrap(instr_hit).cap_num = 0
        THEN [branch |-> "instr", parsed |-> TRUE, queries |-> AllCompletionQueries,
              list |-> Some(CompletionList(
                           capture_items(TRUE, cfg, instrs, dirs, regs, label_items)))]
        ELSE IF instr_hit # None
        THEN [branch |-> "operand", parsed |-> TRUE, queries |-> AllCompletionQueries,
              list |-> Some(CompletionList(
                           capture_items(FALSE, cfg, instrs, dirs, regs, label_items)))]
        ELSE [branch |-> "none", parsed |-> TRUE, queries |-> AllCompletionQueries,
              list |-> None]

(***************************************************************************)
(* References (lsp.rs).                                                    *)
(***************************************************************************)
Chars(s) == {SubSeq(s, i, i) : i \in 1..Len(s)}
\* char::is_alphanumeric: the letters and digits of Unicode, of which the model
\* holds the ASCII ones and the letter e with acute accent (U+00E9).
AlphanumericChars ==
    Chars("abcdefghijklmnopqrstuvwxyzABCDEFGHIJKLMNOPQRSTUVWXYZ0123456789é")
is_alphanumeric(c) == c \in AlphanumericChars

\* char::len_utf8: the bytes a character takes in a str.
len_utf8(c) == IF c = "é" THEN 2 ELSE 1

\* The byte offset of the i-th character (from 0) of a str; str::len for i = Len(s).
RECURSIVE byte_offset(_, _)
byte_offset(s, i) ==
    IF i = 0 THEN 0 ELSE byte_offset(s, i - 1) + len_utf8(SubSeq(s, i, i))

\* &s[start..end]: the characters between two byte offsets; None stands for the
\* panic when an offset is past the end of the str, is not the first byte of a
\* character, or start > end.
byte_slice(s, start, end) ==
    LET boundaries == {i \in 0..Len(s) : byte_offset(s, i) = start}
        boundaries_end == {i \in 0..Len(s) : byte_offset(s, i) = end}
    IN  IF boundaries = {} \/ boundaries_end = {} \/ start > end THEN None
        ELSE Some(SubSeq(s, (CHOOSE i \in boundaries : TRUE) + 1,
                         CHOOSE i \in boundaries_end : TRUE))

SetMax(S) == CHOOSE x \in S : \A y \in S : y <= x
SetMin(S) == CHOOSE x \in S : \A y \in S : x <= y

\* find_word_at_pos: the bounds of the word around column `col` of `line`.
find_word_at_pos(line, col) ==
    LET line_ == line \o " "
        is_ident_char(c) == is_alphanumeric(c) \/ c = "_" \/ c = "."
        char(i) == SubSeq(line_, i + 1, i + 1)
        before == {i \in 0..(Min(col, Len(line_)) - 1) : ~is_ident_char(char(i))}
        after == {i \in col..(Len(line_) - 1) : ~is_ident_char(char(i))}
    IN  [start |-> IF before = {} THEN 0 ELSE SetMax(before) + 1,
         end |-> IF after = {} THEN col ELSE SetMin(after)]

\* doc.get_content(Some(line:0 .. line:u32::MAX)): the line with its line feed.
line_contents(d, line) ==
    IF line \in Rows(d)
    THEN LineText(d.lines[line + 1])
         \o (IF line + 1 < Len(d.lines) \/ d.eof_newline THEN NL ELSE "")
    ELSE ""

\* &line_contents[word_start..word_end]; the documents of the engine hold
\* characters of one byte, for which the slice is always taken.
get_word_from_pos_params(d, position) ==
    LET contents == line_contents(d, position.line)
        bounds == find_word_at_pos(contents, position.character)
    IN  Unwrap(byte_slice(contents, bounds.start, bounds.end))

\* A trimming that takes '.' for an identifier character, as find_word_at_pos does.
RECURSIVE trim_not_ident_KeepsDots(_)
trim_not_ident_KeepsDots(s) ==
    LET is_not_ident_char(c) == ~(is_alphanumeric(c) \/ c = "_" \/ c = ".")
    IN  IF Len(s) = 0 THEN s
        ELSE IF is_not_ident_char(SubSeq(s, 1, 1))
        THEN trim_not_ident_KeepsDots(SubSeq(s, 2, Len(s)))
        ELSE IF is_not_ident_char(SubSeq(s, Len(s), Len(s)))
        THEN trim_not_ident_KeepsDots(SubSeq(s, 1, Len(s) - 1))
        ELSE s

\* str::trim().trim_matches(is_not_ident_char): white space is no ident char.
RECURSIVE trim_not_ident(_)
trim_not_ident(s) ==
    LET is_not_ident_char(c) == ~(is_alphanumeric(c) \/ c = "_")
    IN  IF Len(s) = 0 THEN s
        ELSE IF is_not_ident_char(SubSeq(s, 1, 1)) THEN trim_not_ident(SubSeq(s, 2, Len(s)))
        ELSE IF is_not_ident_char(SubSeq(s, Len(s), Len(s)))
        THEN trim_not_ident(SubSeq(s, 1, Len(s) - 1))
        ELSE s

\* lsp_pos_of_point twice: the Location of a node.
Location(node) ==
    [start |-> [line |-> node.row, character |-> node.start_column],
     end |-> [line |-> node.row, character |-> node.end_column]]

\* The captures of `matches` that end before the end of the document and whose
\* trimmed text is the word.
refs_of(matches, text, word) ==
    {Location(c.node) : c \in
        {c \in ToSet(NumberedCaptures(matches)) :
            /\ c.node.end_byte < Len(text)
            /\ trim_not_ident(utf8_text(c.node, text)) = word}}

get_ref_resp(params, d) ==
    LET text == get_content(d)
        word == get_word_from_pos_params(d, params.position)
    IN  (IF params.include_declaration THEN refs_of(QUERY_LABEL(d), text, word) ELSE {})
        \cup refs_of(QUERY_WORD(d), text, word)

\* The first capture, in iteration order, that ends before the end of the
\* document and whose trimmed text is the word.
RECURSIVE first_label_match(_, _, _)
first_label_match(caps, text, word) ==
    IF caps = <<>> THEN None
    ELSE LET cap == Head(caps).node
         IN  IF cap.end_byte >= Len(text)
             THEN first_label_match(Tail(caps), text, word)
             ELSE IF word = trim_not_ident(utf8_text(cap, text))
             THEN Some(Location(cap))
             ELSE first_label_match(Tail(caps), text, word)

\* get_goto_def_resp: GotoDefinitionResponse::Scalar of the first match.
get_goto_def_resp(d, params) ==
    LET text == get_content(d)
        word == get_word_from_pos_params(d, params.position)
    IN  first_label_match(NumberedCaptures(QUERY_LABEL(d)), text, word)

(***************************************************************************)
(* Signature help (lsp.rs).                                                *)
(***************************************************************************)
UpperCase == "ABCDEFGHIJKLMNOPQRSTUVWXYZ"
LowerCase == "abcdefghijklmnopqrstuvwxyz"

\* str::eq_ignore_ascii_case, by way of the lower-case form of both sides.
RECURSIVE to_ascii_lowercase(_)
to_ascii_lowercase(str) ==
    IF str = "" THEN ""
    ELSE LET c == SubSeq(str, 1, 1)
             up == {i \in 1..Len(UpperCase) : SubSeq(UpperCase, i, i) = c}
         IN  (IF up = {} THEN c
              ELSE LET i == CHOOSE i \in up : TRUE IN SubSeq(LowerCase, i, i))
             \o to_ascii_lowercase(SubSeq(str, 2, Len(str)))

eq_ignore_ascii_case(a, b) == to_ascii_lowercase(a) = to_ascii_lowercase(b)

\* A line appended to `value`: the heading of an architecture or a form of it.
SigLine(arch, kind, entry, text) ==
    [arch |-> arch, kind |-> kind, entry |-> entry, text |-> text]

\* The test of the x86 and x86_64 loops: the GAS name if the form has one,
\* else the Go name if it has one.
x86_form_matches(instr_name, form) ==
    IF form.gas_name # None
    THEN eq_ignore_ascii_case(instr_name, Unwrap(form.gas_name))
    ELSE IF form.go_name # None
    THEN eq_ignore_ascii_case(instr_name, Unwrap(form.go_name))
    ELSE FALSE

\* The test of the z80 loop.
z80_form_matches(instr_name, form) ==
    form.z80_name # None /\ eq_ignore_ascii_case(instr_name, Unwrap(form.z80_name))

\* One loop of get_sig_help_resp: the lines it appends for the entries `forms`,
\* the heading first unless the flag `has` is already set.
sig_block(arch, forms, texts, has) ==
    IF forms = <<>> THEN <<>>
    ELSE (IF has THEN <<>> ELSE <<SigLine(arch, "heading", None, "**" \o arch \o "**\n")>>)
         \o [i \in DOMAIN forms |-> SigLine(arch, "form", Some(forms[i]), texts[i] \o "\n")]

\* The RISC-V loop: it tests and sets the flag of the ARM loop.
sig_block_riscv(forms, has_arm) ==
    sig_block("riscv", forms, forms, has_arm)

\* The lines appended to `value`, in order.
sig_help_lines(instr_name, instr_resp) ==
    LET Sel(a, matches(_, _)) ==
            IF instr_resp[a] = None THEN <<>>
            ELSE LET Test(form) == matches(instr_name, form)
                 IN  SelectSeq(Unwrap(instr_resp[a]).forms, Test)
        Fmt(forms) == [i \in DOMAIN forms |-> InstructionForm_fmt(forms[i])]
        Templates(a) ==
            IF instr_resp[a] = None THEN <<>> ELSE Unwrap(instr_resp[a]).asm_templates
        x86 == Sel("x86", x86_form_matches)
        x86_64 == Sel("x86_64", x86_form_matches)
        z80 == Sel("z80", z80_form_matches)
        has_arm == Templates("arm") # <<>>
    IN  sig_block("x86", x86, Fmt(x86), FALSE)
        \o sig_block("x86_64", x86_64, Fmt(x86_64), FALSE)
        \o sig_block("z80", z80, Fmt(z80), FALSE)
        \o sig_block("arm", Templates("arm"), Templates("arm"), FALSE)
        \o sig_block_riscv(Templates("riscv"), has_arm)

RECURSIVE concat_text(_)
concat_text(lines) ==
    IF lines = <<>> THEN "" ELSE Head(lines).text \o concat_text(Tail(lines))

SignatureHelp(label, value) ==
    [label |-> label, documentation |-> [kind |-> "markdown", value |-> value]]

\* A choice of the match that reads the only match of the line and gives up
\* when the line has several.
sig_help_match_OnlyMatch(matches) ==
    IF Len(matches) = 1 THEN Some(matches[1]) ELSE None

\* matches.first()
sig_help_match(matches) ==
    IF matches = <<>> THEN None ELSE Some(Head(matches))

\* get_sig_help_resp.  Next to the response the result keeps the number of
\* matches on the cursor line, the mnemonic, the records found and the lines.
get_sig_help_resp(d, params, cfg, instr_info) ==
    LET curr_doc == get_content(d)
        matches == QUERY_INSTR_ANY_ARGS(d, params.position.line)
        match_ == sig_help_match(matches)
        no_help(n) == [matches |-> Len(matches), instr_name |-> n,
                       instr_resp |-> None, lines |-> <<>>, help |-> None]
    IN  IF match_ = None THEN no_help(None)
        ELSE LET caps == Unwrap(match_)
             IN  IF ~(Len(caps) = 1 /\ caps[1].end_byte < Len(curr_doc))
                 THEN no_help(None)
                 ELSE LET instr_name == utf8_text(caps[1], curr_doc)
                          instr_resp == search_for_instr_by_arch(instr_name, instr_info, cfg)
                          lines == sig_help_lines(instr_name, instr_resp)
                      IN  IF ~ArchResp_has_resp(instr_resp) THEN no_help(Some(instr_name))
                          ELSE [matches |-> Len(matches),
                                instr_name |-> Some(instr_name),
                                instr_resp |-> Some(instr_resp),
                                lines |-> lines,
                                help |-> IF lines # <<>>
                                         THEN Some(SignatureHelp(instr_name,
                                                                 concat_text(lines)))
                                         ELSE None]

(***************************************************************************)
(* The resolution engine: one request is resolved against a configuration, *)
(* the knowledge base and a parsed document.                               *)
(***************************************************************************)
DefaultConfig == MkConfig({"x86", "x86_64"}, {"gas", "go"}, FALSE)
NoneEnabled == MkConfig({}, {}, TRUE)
Z80ArmNasm == MkConfig({"z80", "arm"}, {"nasm"}, TRUE)

\* The configurations every document is resolved under.
DocConfigs == {DefaultConfig, NoneEnabled, Z80ArmNasm}

\* The document every configuration is resolved against.
PushDoc == [lines |-> <<InstrLine("push", "lp")>>, eof_newline |-> TRUE]

\* A document that defines one label twice before an instruction.
RepeatedLabelDoc ==
    [lines |-> <<LabelLine("lp"), LabelLine("lp"), InstrLine("push", "lp")>>,
     eof_newline |-> TRUE]

\* Documents whose label begins or ends with a dot, and is used as an operand.
DottedLabelDocs ==
    {[lines |-> <<LabelLine(name), InstrLine("push", name)>>, eof_newline |-> TRUE] :
        name \in {".lp", "lp."}}

EngineInputs ==
    {<<c, d>> : c \in Configs, d \in {PushDoc}}
    \cup {<<c, d>> : c \in DocConfigs, d \in Docs \cup {RepeatedLabelDoc} \cup DottedLabelDocs}

\* The words hovered over.
HoverWords ==
    {"mov", "add", "b", "push", "sp", "rax", ".data", "align", "section",
     "lp", "_Z1fv", "stdio.h", "nop"}

\* The cursor positions of a request: on a line of the document (or on line 0
\* of the empty document), at a column up to the end of the line.
Cursors(d) ==
    IF d.lines = <<>> THEN {[line |-> 0, character |-> 0]}
    ELSE UNION {{[line |-> l, character |-> c] :
                    c \in 0..Len(LineText(d.lines[l + 1]))} : l \in Rows(d)}

\* CompletionParams::context.
CompletionContexts ==
    {None,
     Some([trigger_kind |-> "INVOKED", trigger_character |-> None]),
     Some([trigger_kind |-> "INVOKED", trigger_character |-> Some(".")]),
     Some([trigger_kind |-> "TRIGGER_CHARACTER", trigger_character |-> None]),
     Some([trigger_kind |-> "TRIGGER_CHARACTER", trigger_character |-> Some("%")]),
     Some([trigger_kind |-> "TRIGGER_CHARACTER", trigger_character |-> Some(".")]),
     Some([trigger_kind |-> "TRIGGER_CHARACTER", trigger_character |-> Some(",")])}

InitEngine ==
    /\ text_store = [u \in Uris |-> None]
    /\ tree_store = [u \in Uris |-> None]
    /\ running = TRUE
    /\ last = Idle
    /\ \E input \in EngineInputs : config = input[1] /\ doc = input[2]
    /\ resp = None
    /\ inbox = <<>>
    /\ handled = <<>>

\* A hover request for `word`; the response is kept with the records the three
\* searches return for the word.
ResolveHover ==
    /\ resp = None
    /\ \E word \in HoverWords :
          resp' = Some([kind |-> "hover", word |-> word,
                        instr_resp |-> search_for_instr_by_arch(word, instruction_map, config),
                        reg_resp |-> search_for_reg_by_arch(word, register_map, config),
                        dir_resp |-> search_for_dir_by_assembler(word, directive_map, config),
                        hover |-> get_hover_resp(config, word, doc, instruction_map,
                                                 register_map, directive_map,
                                                 include_dirs)])
    /\ UNCHANGED <<text_store, tree_store, running, last, config, doc, inbox, handled>>

\* A completion request; `map_rev` and `set_rev` tell the iteration orders of
\* the maps the completion items were made from and of the label set, which
\* only the operand branch iterates.
ResolveCompletion ==
    /\ resp = None
    /\ \E position \in Cursors(doc), context \in CompletionContexts,
          map_rev \in BOOLEAN, set_rev \in BOOLEAN :
          LET params == [position |-> position, context |-> context]
              r == get_comp_resp(doc, params, config, instr_comps(map_rev),
                                 dir_comps(map_rev), reg_comps(map_rev), set_rev)
          IN  /\ set_rev => r.branch = "operand"
              /\ resp' = Some([kind |-> "completion", params |-> params,
                               map_rev |-> map_rev, set_rev |-> set_rev,
                               branch |-> r.branch, parsed |-> r.parsed,
                               queries |-> r.queries, list |-> r.list])
    /\ UNCHANGED <<text_store, tree_store, running, last, config, doc, inbox, handled>>

\* A references request.  get_ref_resp reads no configuration.
ResolveReferences ==
    /\ resp = None
    /\ config \in DocConfigs
    /\ \E position \in Cursors(doc), include_declaration \in BOOLEAN :
          LET params == [position |-> position,
                         include_declaration |-> include_declaration]
          IN  resp' = Some([kind |-> "references", params |-> params,
                            word |-> get_word_from_pos_params(doc, position),
                            refs |-> get_ref_resp(params, doc)])
    /\ UNCHANGED <<text_store, tree_store, running, last, config, doc, inbox, handled>>

\* A goto-definition request.  get_goto_def_resp reads no configuration.
ResolveGotoDefinition ==
    /\ resp = None
    /\ config \in DocConfigs
    /\ \E position \in Cursors(doc) :
          LET params == [position |-> position]
          IN  resp' = Some([kind |-> "definition", params |-> params,
                            word |-> get_word_from_pos_params(doc, position),
                            location |-> get_goto_def_resp(doc, params)])
    /\ UNCHANGED <<text_store, tree_store, running, last, config, doc, inbox, handled>>

NextEngine ==
    \/ ResolveHover
    \/ ResolveCompletion
    \/ ResolveReferences
    \/ ResolveGotoDefinition

SpecEngine == InitEngine /\ [][NextEngine]_vars

(***************************************************************************)
(* Signature help: one request is resolved against a configuration, the    *)
(* knowledge base and a parsed document.                                   *)
(***************************************************************************)
Instr(name, operand) == [name |-> name, operand |-> operand]

\* The documents signature help is asked on: a mnemonic that ends before or at
\* the end of the text, rows with two instructions, a row without instruction,
\* and mnemonics with forms that do not match or with no form at all.
SigDocs ==
    {[lines |-> <<InstrsLine(<<Instr("add", "lp")>>)>>, eof_newline |-> TRUE],
     [lines |-> <<InstrsLine(<<Instr("add", "")>>)>>, eof_newline |-> FALSE],
     [lines |-> <<InstrsLine(<<Instr("add", "")>>)>>, eof_newline |-> TRUE],
     [lines |-> <<InstrsLine(<<Instr("add", "lp"), Instr("mov", "lp")>>)>>,
      eof_newline |-> TRUE],
     [lines |-> <<InstrsLine(<<Instr("mov", "lp"), Instr("add", "lp")>>)>>,
      eof_newline |-> TRUE],
     [lines |-> <<LabelLine("lp"), InstrsLine(<<Instr("mov", "lp")>>)>>,
      eof_newline |-> TRUE],
     [lines |-> <<InstrsLine(<<Instr("b", "lp")>>)>>, eof_newline |-> TRUE]}

InitSigHelp ==
    /\ text_store = [u \in Uris |-> None]
    /\ tree_store = [u \in Uris |-> None]
    /\ running = TRUE
    /\ last = Idle
    /\ config \in Configs
    /\ doc \in SigDocs
    /\ resp = None
    /\ inbox = <<>>
    /\ handled = <<>>

\* A signature-help request on a line of the document or on the line after it.
ResolveSignatureHelp ==
    /\ resp = None
    /\ \E line \in 0..Len(doc.lines) :
          LET params == [position |-> [line |-> line, character |-> 0]]
              r == get_sig_help_resp(doc, params, config, instruction_map)
          IN  resp' = Some([kind |-> "signature", params |-> params,
                            matches |-> r.matches, instr_name |-> r.instr_name,
                            instr_resp |-> r.instr_resp, lines |-> r.lines,
                            help |-> r.help])
    /\ UNCHANGED <<text_store, tree_store, running, last, config, doc, inbox, handled>>

NextSigHelp == ResolveSignatureHelp

SpecSigHelp == InitSigHelp /\ [][NextSigHelp]_vars

(***************************************************************************)
(* Document symbols (lsp.rs): get_document_symbols walks the tree itself,  *)
(* so the tree is given as nodes with their children.                      *)
(***************************************************************************)
TreeNode(kind, text, children) == [kind |-> kind, text |-> text, children |-> children]
IdentNode(text) == TreeNode("ident", text, <<>>)
TokenNode == TreeNode("other", "", <<>>)
LabelTree(children) == TreeNode("label", "", children)

DocumentSymbol(name, children) ==
    [name |-> name, kind |-> "FUNCTION",
     children |-> IF children = <<>> THEN None ELSE Some(children)]

\* `descr` after the loop over the children of a label: the text of an ident
\* child replaces the description found before it.  `at_end` tells that the
\* label ends with the document, so that its last child has end_byte = len.
RECURSIVE label_descr(_, _, _)
label_descr(children, at_end, descr) ==
    IF children = <<>> THEN descr
    ELSE LET sub_node == Head(children)
             inside == ~(at_end /\ Len(children) = 1)
         IN  label_descr(Tail(children), at_end,
                         IF inside /\ sub_node.kind = "ident" THEN sub_node.text ELSE descr)

\* explore_node, and its loop over the children of a node.
RECURSIVE explore_node(_, _, _)
RECURSIVE explore_children(_, _, _)
explore_children(children, at_end, res) ==
    IF children = <<>> THEN res
    ELSE explore_children(Tail(children), at_end,
                          explore_node(Head(children), at_end /\ Len(children) = 1, res))

explore_node(node, at_end, res) ==
    IF node.kind = "label"
    THEN Append(res, DocumentSymbol(label_descr(node.children, at_end, ""),
                                    explore_children(node.children, at_end, <<>>)))
    ELSE explore_children(node.children, at_end, res)

\* get_document_symbols: the root has no sibling.
get_document_symbols(d) == Some(explore_node(d.root, ~d.eof_newline, <<>>))

\* The trees: a program of one or two items; an item is a label of up to two
\* children, a label that holds a label, or another node that holds labels.
LabelLeaves == {IdentNode("a"), IdentNode("b"), TokenNode}
FlatLabels ==
    {LabelTree(<<>>)}
    \cup {LabelTree(<<x>>) : x \in LabelLeaves}
    \cup {LabelTree(<<x, y>>) : x, y \in LabelLeaves}
NestedLabels ==
    {LabelTree(<<IdentNode("a"), TokenNode, l>>) :
        l \in {LabelTree(<<IdentNode("b"), TokenNode>>), LabelTree(<<IdentNode("b")>>)}}
Wrapped ==
    {TreeNode("other", "", <<l, TokenNode, m>>) :
        l, m \in {LabelTree(<<IdentNode("a"), TokenNode>>), LabelTree(<<IdentNode("b")>>)}}
Items == FlatLabels \cup NestedLabels \cup Wrapped \cup {TokenNode}
SymbolDocs ==
    {[root |-> TreeNode("other", "", items), eof_newline |-> nl] :
        items \in {<<i>> : i \in Items} \cup {<<i, j>> : i, j \in Items},
        nl \in BOOLEAN}

InitSymbols ==
    /\ text_store = [u \in Uris |-> None]
    /\ tree_store = [u \in Uris |-> None]
    /\ running = TRUE
    /\ last = Idle
    /\ config = DefaultConfig
    /\ doc \in SymbolDocs
    /\ resp = None
    /\ inbox = <<>>
    /\ handled = <<>>

ResolveDocumentSymbols ==
    /\ resp = None
    /\ resp' = Some([kind |-> "symbols", symbols |-> get_document_symbols(doc)])
    /\ UNCHANGED <<text_store, tree_store, running, last, config, doc, inbox, handled>>

NextSymbols == ResolveDocumentSymbols

SpecSymbols == InitSymbols /\ [][NextSymbols]_vars

(***************************************************************************)
(* instr_filter_targets applied to an instruction under a configuration.   *)
(***************************************************************************)
\* The forms: every combination of names present and absent.
NameSlots(name) == {None, Some(name)}
FilterForms ==
    {InstructionForm(gas, go, z80) :
        gas \in NameSlots("addl"), go \in NameSlots("ADDL"), z80 \in NameSlots("ADD")}
FilterInstructions ==
    {Instruction("x86", "add", forms) :
        forms \in {<<>>} \cup {<<f>> : f \in FilterForms}
                  \cup {<<f, g>> : f, g \in FilterForms}}

\* The configurations: GAS, Go and the Z80 instruction set on, off or unset.
FilterConfigs ==
    {MkConfig(isas, assems, unset) :
        isas \in {{}, {"z80"}}, assems \in SUBSET {"gas", "go"}, unset \in BOOLEAN}

InitFilter ==
    /\ text_store = [u \in Uris |-> None]
    /\ tree_store = [u \in Uris |-> None]
    /\ running = TRUE
    /\ last = Idle
    /\ config \in FilterConfigs
    /\ doc = EngineIdle
    /\ resp = None
    /\ inbox = <<>>
    /\ handled = <<>>

FilterTargets ==
    /\ resp = None
    /\ \E instr \in FilterInstructions :
          resp' = Some([kind |-> "filter", instr |-> instr,
                        filtered |-> instr_filter_targets(instr, config)])
    /\ UNCHANGED <<text_store, tree_store, running, last, config, doc, inbox, handled>>

NextFilter == FilterTargets

SpecFilter == InitFilter /\ [][NextFilter]_vars

(***************************************************************************)
(* get_label_resp applied to documents whose labels begin with dots.       *)
(***************************************************************************)
LabelNames == {"lp", ".lp", "..lp"}
LabelHoverLines ==
    {LabelDataLine(name, ".byte", data) : name \in LabelNames, data \in {"7", "9"}}
    \cup {LabelLine("lp")}
LabelHoverDocs ==
    {[lines |-> ls, eof_newline |-> nl] :
        ls \in {<<l>> : l \in LabelHoverLines}
               \cup {<<l, m>> : l, m \in LabelHoverLines},
        nl \in BOOLEAN}
LabelHoverWords == {"lp", ".lp", "..lp", "sp"}

InitLabelHover ==
    /\ text_store = [u \in Uris |-> None]
    /\ tree_store = [u \in Uris |-> None]
    /\ running = TRUE
    /\ last = Idle
    /\ config = DefaultConfig
    /\ doc \in LabelHoverDocs
    /\ resp = None
    /\ inbox = <<>>
    /\ handled = <<>>

ResolveLabelHover ==
    /\ resp = None
    /\ \E word \in LabelHoverWords :
          resp' = Some([kind |-> "label_hover", word |-> word,
                        hover |-> get_label_resp(word, doc)])
    /\ UNCHANGED <<text_store, tree_store, running, last, config, doc, inbox, handled>>

NextLabelHover == ResolveLabelHover

SpecLabelHover == InitLabelHover /\ [][NextLabelHover]_vars

(***************************************************************************)
(* get_root_config (lsp.rs): the configuration read at start-up, from the  *)
(* global file, the project file and the entries under the project root.   *)
(***************************************************************************)
MaxProjects == 3

\* ConfigOptions, Config (the field get_root_config touches), ProjectConfig and
\* RootConfig of types.rs.
ConfigOptions(diagnostics, default_diagnostics) ==
    [diagnostics |-> diagnostics, default_diagnostics |-> default_diagnostics]
OptsConfig(opts) == [opts |-> opts]
ProjectConfig(path, cfg) == [path |-> path, config |-> cfg]
RootConfig(default_config, projects) ==
    [default_config |-> default_config, projects |-> projects]

\* Config::empty() of types.rs: a configuration with nothing enabled; its two
\* diagnostics gates are set, to `gate`.
Config_empty(gate) == OptsConfig(ConfigOptions(Some(gate), Some(gate)))

\* RootConfig::default() of types.rs: no default configuration, no projects.
RootConfig_default == RootConfig(None, None)

\* The file system under the project root: regular files, directories and a
\* named pipe.  Every other path does not exist.
ProjectRoot == "/p"
FsFiles == {"/p/a.s", "/p/main.s"}
FsDirs == {"/p/src", "/p/src/lib"}
FsPipes == {"/p/pipe"}
is_file(path) == path \in FsFiles
is_dir(path) == path \in FsDirs

\* PathBuf::push and Path::canonicalize: None when the path does not exist.
canonicalize(root, path) ==
    LET joined == root \o "/" \o path
    IN  IF joined \in FsFiles \cup FsDirs \cup FsPipes THEN Some(joined) ELSE None

\* A defaulting that sets the diagnostics gate only.
enforce_defaults_DiagnosticsOnly(cfg) ==
    OptsConfig(ConfigOptions(
        IF cfg.opts.diagnostics = None THEN Some(TRUE) ELSE cfg.opts.diagnostics,
        cfg.opts.default_diagnostics))

\* "Want diagnostics enabled by default", "Want default diagnostics enabled by
\* default": an unset gate becomes Some(true).
enforce_defaults(cfg) ==
    OptsConfig(ConfigOptions(
        IF cfg.opts.diagnostics = None THEN Some(TRUE) ELSE cfg.opts.diagnostics,
        IF cfg.opts.default_diagnostics = None
        THEN Some(TRUE) ELSE cfg.opts.default_diagnostics))

\* The while loop over the projects: a project whose path cannot be
\* canonicalized is removed, the others get their canonical path and defaults.
RECURSIVE validate_projects(_, _)
validate_projects(projects, root) ==
    IF projects = <<>> THEN <<>>
    ELSE LET project == Head(projects)
             project_path == canonicalize(root, project.path)
         IN  (IF project_path = None THEN <<>>
              ELSE <<ProjectConfig(Unwrap(project_path), enforce_defaults(project.config))>>)
             \o validate_projects(Tail(projects), root)

\* The comparator handed to sort_unstable_by.
project_cmp(c1, c2) ==
    LET c1_dir == is_dir(c1.path)
        c1_file == is_file(c1.path)
        c2_dir == is_dir(c2.path)
        c2_file == is_file(c2.path)
    IN  IF c1_file /\ c2_file THEN "Equal"
        ELSE IF c1_dir /\ c2_file THEN "Greater"
        ELSE IF c1_file /\ c2_dir THEN "Less"
        ELSE IF Len(c2.path) < Len(c1.path) THEN "Less"
        ELSE IF Len(c2.path) > Len(c1.path) THEN "Greater"
        ELSE "Equal"

\* The orders sort_unstable_by may leave the projects in: the rearrangements in
\* which no element is Greater than its successor (elements that compare Equal
\* come in any order).
sort_unstable_by(projects) ==
    LET n == Len(projects)
        perms == {f \in [1..n -> 1..n] : \A i, j \in 1..n : i # j => f[i] # f[j]}
        sorted == {[i \in 1..n |-> projects[f[i]]] : f \in perms}
    IN  {s \in sorted : \A i \in 1..(n - 1) : project_cmp(s[i], s[i + 1]) # "Greater"}

\* get_root_config: the configurations it may return.  `global_cfg` and
\* `proj_cfg` are the results of get_global_config and get_project_config,
\* `root` the result of get_project_root, `gate` the gates of Config::empty().
get_root_config(global_cfg, proj_cfg, root, gate) ==
    LET cfg == IF proj_cfg # None THEN Unwrap(proj_cfg)
               ELSE IF global_cfg # None THEN Unwrap(global_cfg)
               ELSE RootConfig_default
        validated == IF root # None
                     THEN validate_projects(Unwrap(cfg.projects), Unwrap(root))
                     ELSE <<>>
        default_config == IF cfg.default_config # None
                          THEN Some(enforce_defaults(Unwrap(cfg.default_config)))
                          ELSE Some(Config_empty(gate))
    IN  IF cfg.projects # None
        THEN {RootConfig(default_config, Some(projects)) :
                projects \in sort_unstable_by(validated)}
        ELSE {RootConfig(default_config, None)}

\* The inputs: the gates of a configuration file, the project paths it names,
\* and the configuration files found.
FileOptions ==
    {ConfigOptions(None, None), ConfigOptions(Some(FALSE), None),
     ConfigOptions(None, Some(FALSE)), ConfigOptions(Some(TRUE), Some(TRUE))}
ProjectOptions == {ConfigOptions(None, None), ConfigOptions(Some(FALSE), Some(FALSE))}
ProjectPaths == {"a.s", "main.s", "src", "src/lib", "pipe", "gone"}

RECURSIVE ProjectLists(_)
ProjectLists(n) ==
    IF n = 0 THEN {<<>>}
    ELSE LET shorter == ProjectLists(n - 1)
         IN  shorter \cup
             {Append(ps, ProjectConfig(path, OptsConfig(opts))) :
                ps \in {ps \in shorter : Len(ps) = n - 1},
                path \in ProjectPaths, opts \in ProjectOptions}

\* No two projects of a file name the same path.
DistinctPaths(ps) == \A i, j \in DOMAIN ps : i # j => ps[i].path # ps[j].path

RootConfigs ==
    {RootConfig(default_config, projects) :
        default_config \in {None} \cup {Some(OptsConfig(opts)) : opts \in FileOptions},
        projects \in {None} \cup {Some(ps) : ps \in {ps \in ProjectLists(MaxProjects) :
                                                        DistinctPaths(ps)}}}
GlobalConfigs ==
    {None,
     Some(RootConfig(Some(OptsConfig(ConfigOptions(None, Some(FALSE)))), None)),
     Some(RootConfig(None, Some(<<ProjectConfig("src", OptsConfig(ConfigOptions(None, None))),
                                  ProjectConfig("a.s", OptsConfig(ConfigOptions(None, None)))>>)))}

InitRootConfig ==
    /\ text_store = [u \in Uris |-> None]
    /\ tree_store = [u \in Uris |-> None]
    /\ running = TRUE
    /\ last = Idle
    /\ config = DefaultConfig
    /\ doc = EngineIdle
    /\ resp = None
    /\ inbox = <<>>
    /\ handled = <<>>

GetRootConfig ==
    /\ resp = None
    /\ \E global_cfg \in GlobalConfigs, proj_cfg \in {None} \cup {Some(c) : c \in RootConfigs},
          root \in {None, Some(ProjectRoot)}, gate \in BOOLEAN :
          \* get_project_config finds a project file under the project root only
          /\ proj_cfg # None => root # None
          /\ \E root_config \in get_root_config(global_cfg, proj_cfg, root, gate) :
             resp' = Some([kind |-> "root_config", global_cfg |-> global_cfg,
                           proj_cfg |-> proj_cfg, root |-> root,
                           root_config |-> root_config])
    /\ UNCHANGED <<text_store, tree_store, running, last, config, doc, inbox, handled>>

NextRootConfig == GetRootConfig

SpecRootConfig == InitRootConfig /\ [][NextRootConfig]_vars

(***************************************************************************)
(* text_doc_change_to_ts_edit applied to one ranged change of a document.  *)
(***************************************************************************)
InitEdit ==
    /\ text_store \in [Uris -> {Some(t) : t \in TextsUpTo(MaxTotalLen)}]
    /\ tree_store = [u \in Uris |-> None]
    /\ running = TRUE
    /\ last = Idle
    /\ config = DefaultConfig
    /\ doc = EngineIdle
    /\ resp = None
    /\ inbox = <<>>
    /\ handled = <<>>

\* The conversion of one change against the stored text of a document, next to
\* the text FullTextDocument::update makes of it.
ConvertChange ==
    /\ resp = None
    /\ \E uri \in Uris, change \in RangedChanges :
          LET text == Unwrap(text_store[uri])
          IN  resp' = Some([kind |-> "edit", text |-> text, change |-> change,
                            edit |-> text_doc_change_to_ts_edit(change, text),
                            updated |-> apply_change(text, change)])
    /\ UNCHANGED <<text_store, tree_store, running, last, config, doc, inbox, handled>>

NextEdit == ConvertChange

SpecEdit == InitEdit /\ [][NextEdit]_vars

(***************************************************************************)
(* find_word_at_pos applied to a line and a column, and the slice          *)
(* get_word_from_pos_params takes with its result.                         *)
(***************************************************************************)
MaxLineLen == 4

\* The lines: letters of one byte and of two bytes, '.', '_' and the blank.
LineChars == {"a", "é", ".", "_", " "}
RECURSIVE LinesUpTo(_)
LinesUpTo(n) ==
    IF n = 0 THEN {""}
    ELSE LET shorter == LinesUpTo(n - 1)
         IN  shorter \cup {l \o c : l \in {l \in shorter : Len(l) = n - 1}, c \in LineChars}

InitWord ==
    /\ text_store = [u \in Uris |-> None]
    /\ tree_store = [u \in Uris |-> None]
    /\ running = TRUE
    /\ last = Idle
    /\ config = DefaultConfig
    /\ doc = EngineIdle
    /\ resp = None
    /\ inbox = <<>>
    /\ handled = <<>>

FindWord ==
    /\ resp = None
    /\ \E line \in LinesUpTo(MaxLineLen) : \E col \in 0..Len(line) :
          LET bounds == find_word_at_pos(line, col)
          IN  resp' = Some([kind |-> "word", line |-> line, col |-> col,
                            bounds |-> bounds,
                            word |-> byte_slice(line, bounds.start, bounds.end)])
    /\ UNCHANGED <<text_store, tree_store, running, last, config, doc, inbox, handled>>

NextWord == FindWord

SpecWord == InitWord /\ [][NextWord]_vars

(***************************************************************************)
(* Claims about the resolution engine (checked under SpecEngine).          *)
(***************************************************************************)
Resolved(kind) == resp # None /\ Unwrap(resp).kind = kind
Answer == Unwrap(resp)

\* A gate is on exactly when it is set to true.
GateOn(gate) == gate = Some(TRUE)

\* The results of the six hover stages for a word, in the order of the claim.
StageResults(word) ==
    <<get_instr_hover_resp(word, instruction_map, config),
      hover_directive_lookup(word, directive_map, config),
      get_reg_hover_resp(word, register_map, config),
      get_label_resp(word, doc),
      get_demangle_resp(word),
      get_include_resp(word, include_dirs)>>

\* C1: get_hover_resp returns the result of the first of the six stages
\* (instruction, directive, register, label, demangle, include file) that yields
\* a hover, whatever the later stages yield, and None exactly when none does.
C1_HoverFirstStageWins ==
    Resolved("hover") =>
        LET stages == StageResults(Answer.word)
            hits == {k \in DOMAIN stages : stages[k] # None}
        IN  /\ hits = {} => Answer.hover = None
            /\ hits # {} => Answer.hover = stages[SetMin(hits)]

\* C1 witness: the register stage and the label stage both yield a hover, they
\* differ, and the response is the register's.
C1_Witness ==
    /\ Resolved("hover")
    /\ LET stages == StageResults(Answer.word)
       IN  /\ stages[1] = None /\ stages[2] = None
           /\ stages[3] # None /\ stages[4] # None
           /\ stages[3] # stages[4]
           /\ Answer.hover = stages[3]

\* C2: a lookup returns a record under a tag only if that tag is enabled in the
\* configuration, and every completion item that was made from a record comes
\* from a record of an enabled tag.
C2_NoDisabledTag ==
    /\ Resolved("hover") =>
          /\ \A a \in ToSet(Archs) :
                /\ Answer.instr_resp[a] # None =>
                      /\ Unwrap(Answer.instr_resp[a]).tag = a
                      /\ GateOn(config.instruction_sets[a])
                /\ Answer.reg_resp[a] # None =>
                      /\ Unwrap(Answer.reg_resp[a]).tag = a
                      /\ GateOn(config.instruction_sets[a])
          /\ \A a \in ToSet(Assemblers) :
                Answer.dir_resp[a] # None =>
                    /\ Unwrap(Answer.dir_resp[a]).tag = a
                    /\ GateOn(config.assemblers[a])
    /\ (Resolved("completion") /\ Answer.list # None) =>
          \A i \in DOMAIN Unwrap(Answer.list).items :
              LET item == Unwrap(Answer.list).items[i]
              IN  \/ item.documentation = ""
                  \/ \E e \in ToSet(instr_comps(FALSE)) \cup ToSet(reg_comps(FALSE)) :
                        e.item = item /\ GateOn(config.instruction_sets[e.tag])
                  \/ \E e \in ToSet(dir_comps(FALSE)) :
                        e.item = item /\ GateOn(config.assemblers[e.tag])

\* C2 witness: the word is an instruction of an enabled and of a disabled
\* architecture, and the search returned the record of the enabled one only.
C2_Witness ==
    /\ Resolved("hover")
    /\ \E a, b \in ToSet(Archs) :
          /\ GateOn(config.instruction_sets[a])
          /\ ~GateOn(config.instruction_sets[b])
          /\ get(instruction_map, a, Answer.word) # None
          /\ get(instruction_map, b, Answer.word) # None
          /\ Answer.instr_resp[a] # None
          /\ Answer.instr_resp[b] = None

\* C3: a completion list returned by get_comp_resp, in whichever branch, holds
\* no two items with the same label text.
C3_NoDuplicateLabels ==
    (Resolved("completion") /\ Answer.list # None) =>
        LET items == Unwrap(Answer.list).items
        IN  \A i, j \in DOMAIN items : i # j => items[i].label # items[j].label

\* The label definitions of a word: the label nodes whose trimmed text is it.
LabelSites(word) ==
    {c.node : c \in {c \in ToSet(NumberedCaptures(QUERY_LABEL(doc))) :
                        trim_not_ident(utf8_text(c.node, get_content(doc))) = word}}

OnSite(loc, site) ==
    /\ loc.start.line = site.row
    /\ loc.end.line = site.row
    /\ site.start_column <= loc.start.character
    /\ loc.end.character <= site.end_column

\* C4: with include_declaration = false, no location get_ref_resp returns lies
\* on the label definition site of the cursor word.
C4_NoDeclarationSite ==
    (Resolved("references") /\ ~Answer.params.include_declaration) =>
        \A loc \in Answer.refs : \A site \in LabelSites(Answer.word) : ~OnSite(loc, site)

\* The tags of `tags`, in order, that are enabled and hold `word` in `map`.
Matching(tags, gates, map, word) ==
    LET Test(t) == GateOn(gates[t]) /\ get(map, t, word) # None
    IN  SelectSeq(tags, Test)

RECURSIVE JoinParagraphs(_)
JoinParagraphs(pars) ==
    IF Len(pars) = 1 THEN pars[1]
    ELSE pars[1] \o BlankLine \o JoinParagraphs(Tail(pars))

InstructionParagraphs(word) ==
    LET archs == Matching(Archs, config.instruction_sets, instruction_map, word)
    IN  [i \in DOMAIN archs |->
            LET instr == Unwrap(get(instruction_map, archs[i], word))
            IN  IF archs[i] \in {"x86", "x86_64"}
                THEN Instruction_fmt(instr_filter_targets(instr, config))
                ELSE Instruction_fmt(instr)]

RegisterParagraphs(word) ==
    LET archs == Matching(Archs, config.instruction_sets, register_map, word)
    IN  [i \in DOMAIN archs |-> Register_fmt(Unwrap(get(register_map, archs[i], word)))]

\* C9: the hover text of a word found as an instruction (or, the instruction and
\* directive stages missing, as a register) is one paragraph per matching enabled
\* architecture in the order x86, x86-64, Z80, ARM, RISC-V, with one blank line
\* between two paragraphs and none before the first or after the last.
C9_ParagraphPerArchitecture ==
    Resolved("hover") =>
        LET word == Answer.word
            instrs == InstructionParagraphs(word)
            regs == RegisterParagraphs(word)
        IN  /\ instrs # <<>> => Answer.hover = Some(Hover(JoinParagraphs(instrs)))
            /\ (/\ instrs = <<>>
                /\ hover_directive_lookup(word, directive_map, config) = None
                /\ regs # <<>>)
               => Answer.hover = Some(Hover(JoinParagraphs(regs)))

\* C9 witness: a register of three or more enabled architectures, with a
\* disabled architecture that holds it too, was hovered over and the register
\* stage answered.
C9_Witness ==
    /\ Resolved("hover")
    /\ InstructionParagraphs(Answer.word) = <<>>
    /\ hover_directive_lookup(Answer.word, directive_map, config) = None
    /\ Len(RegisterParagraphs(Answer.word)) >= 3
    /\ \E a \in ToSet(Archs) :
          ~GateOn(config.instruction_sets[a]) /\ get(register_map, a, Answer.word) # None
    /\ Answer.hover = Some(Hover(JoinParagraphs(RegisterParagraphs(Answer.word))))

\* The '.' trigger character with GAS, MASM or NASM enabled.
DotTriggered ==
    /\ Resolved("completion")
    /\ Answer.params.context # None
    /\ Unwrap(Answer.params.context).trigger_kind = "TRIGGER_CHARACTER"
    /\ Unwrap(Answer.params.context).trigger_character = Some(".")
    /\ \E a \in {"gas", "masm", "nasm"} : GateOn(config.assemblers[a])

\* The directive completions of the enabled assemblers whose label starts with '.'.
DotDirectives ==
    {e \in ToSet(dir_comps(FALSE)) :
        GateOn(config.assemblers[e.tag]) /\ SubSeq(e.item.label, 1, 1) = "."}

\* C10: on the '.' trigger with GAS, MASM or NASM enabled, the list holds every
\* '.'-prefixed directive name of an enabled assembler, and every item of the
\* list is a '.'-prefixed directive completion of an enabled assembler.
C10_DotTriggerExact ==
    DotTriggered =>
        /\ Answer.list # None
        /\ LET items == Unwrap(Answer.list).items
           IN  /\ Labels(items) = {e.item.label : e \in DotDirectives}
               /\ \A i \in DOMAIN items : \E e \in DotDirectives : e.item = items[i]

\* C10 witness: the list of a '.' trigger holds a directive, while a directive
\* without the '.' and a '.'-prefixed directive of a disabled assembler exist.
C10_Witness ==
    /\ DotTriggered
    /\ Answer.list # None
    /\ Unwrap(Answer.list).items # <<>>
    /\ \E e \in ToSet(dir_comps(FALSE)) :
          GateOn(config.assemblers[e.tag]) /\ SubSeq(e.item.label, 1, 1) # "."
    /\ \E e \in ToSet(dir_comps(FALSE)) :
          ~GateOn(config.assemblers[e.tag]) /\ SubSeq(e.item.label, 1, 1) = "."


\* A completion request whose context names the trigger character `c`.
Triggered(c) ==
    /\ Resolved("completion")
    /\ Answer.params.context # None
    /\ Unwrap(Answer.params.context).trigger_kind = "TRIGGER_CHARACTER"
    /\ Unwrap(Answer.params.context).trigger_character = Some(c)

X86Active == GateOn(config.instruction_sets.x86) \/ GateOn(config.instruction_sets.x86_64)
NasmActive == GateOn(config.assemblers.nasm)

\* The register completions, and the '%'-prefixed NASM directive completions.
RegisterItems == {e.item : e \in ToSet(reg_comps(FALSE))}
PercentNasmItems ==
    {e.item : e \in {e \in ToSet(dir_comps(FALSE)) :
                        e.tag = "nasm" /\ SubSeq(e.item.label, 1, 1) = "%"}}

\* The list holds registers exactly when x86 or x86-64 is active, '%'-prefixed
\* NASM directives exactly when NASM is active, and nothing else.
PercentListExact(items) ==
    /\ (ToSet(items) \cap RegisterItems # {}) <=> X86Active
    /\ (ToSet(items) \cap PercentNasmItems # {}) <=> NasmActive
    /\ ToSet(items) \subseteq RegisterItems \cup PercentNasmItems

\* C11 (as stated): the list returned for a '%' trigger offers register
\* completions if and only if x86 or x86-64 is active, '%'-prefixed NASM
\* directives if and only if NASM is active, and no other items.
C11_PercentTriggerExact ==
    (Triggered("%") /\ Answer.list # None) =>
        PercentListExact(Unwrap(Answer.list).items)

\* C11 (amended): for a '%' trigger with x86, x86-64 or NASM active the '%'
\* branch answers and its list offers register completions if and only if x86
\* or x86-64 is active, '%'-prefixed NASM directives if and only if NASM is
\* active, and no other items; with none of the three active the '%' branch does
\* not answer and the request is resolved like one without a trigger character.
C11_PercentTriggerWhenActive ==
    Triggered("%") =>
        IF X86Active \/ NasmActive
        THEN /\ Answer.branch = "percent"
             /\ Answer.list # None
             /\ PercentListExact(Unwrap(Answer.list).items)
        ELSE /\ Answer.branch # "percent"
             /\ Answer.list =
                   get_comp_resp(doc, [Answer.params EXCEPT !.context = None], config,
                                 instr_comps(Answer.map_rev), dir_comps(Answer.map_rev),
                                 reg_comps(Answer.map_rev), Answer.set_rev).list

\* C11 witness: a '%' trigger with x86 and NASM active was answered with a
\* register and a '%'-prefixed directive, while NASM has a directive without
\* the '%'.
C11_Witness ==
    /\ Triggered("%")
    /\ X86Active /\ NasmActive
    /\ Answer.list # None
    /\ ToSet(Unwrap(Answer.list).items) \cap RegisterItems # {}
    /\ ToSet(Unwrap(Answer.list).items) \cap PercentNasmItems # {}
    /\ \E e \in ToSet(dir_comps(FALSE)) :
          e.tag = "nasm" /\ SubSeq(e.item.label, 1, 1) # "%"

\* The trigger character of the request, None when its context names none.
TriggerOf ==
    IF Answer.params.context # None
       /\ Unwrap(Answer.params.context).trigger_kind = "TRIGGER_CHARACTER"
    THEN Unwrap(Answer.params.context).trigger_character
    ELSE None

FastPath == Answer.branch \in {"percent", "dot"}
DotActive == \E a \in {"gas", "masm", "nasm"} : GateOn(config.assemblers[a])

\* A request with another trigger character, or none, never takes a fast path.
NoFastPathWithoutTrigger ==
    (Resolved("completion") /\ TriggerOf \notin {Some("%"), Some(".")}) => ~FastPath

\* C12 (as stated): a completion request triggered by '%' or '.' is always
\* answered by the fast path, without a re-parse and without a pattern query,
\* and a request with another trigger character or none never takes a fast path.
C12_TriggerAlwaysFastPath ==
    /\ (Resolved("completion") /\ TriggerOf \in {Some("%"), Some(".")}) =>
          FastPath /\ ~Answer.parsed /\ Answer.queries = <<>>
    /\ NoFastPathWithoutTrigger

\* C12 (amended): a '%' trigger is answered by the fast path exactly when x86,
\* x86-64 or NASM is active, a '.' trigger exactly when GAS, MASM or NASM is
\* active; a fast-path answer re-parses nothing and runs no pattern query;
\* every other request, a triggered one whose fast path has nothing enabled
\* included, re-parses the tree and runs the pattern queries; a request with
\* another trigger character or none never takes a fast path.
C12_FastPathWhenActive ==
    /\ Triggered("%") => (Answer.branch = "percent" <=> (X86Active \/ NasmActive))
    /\ Triggered(".") => (Answer.branch = "dot" <=> DotActive)
    /\ Resolved("completion") =>
          IF FastPath
          THEN ~Answer.parsed /\ Answer.queries = <<>>
          ELSE Answer.parsed /\ Answer.queries # <<>>
    /\ NoFastPathWithoutTrigger

\* C12 witness: a '.' trigger with no assembler of GAS, MASM and NASM active was
\* resolved by the tree queries after a re-parse, and returned a list.
C12_Witness ==
    /\ Triggered(".")
    /\ ~DotActive
    /\ Answer.parsed
    /\ Answer.queries = AllCompletionQueries
    /\ Answer.list # None

\* C13: goto-definition returns, as one location spanning the label node's own
\* range, the first label in document order whose trimmed text equals the
\* cursor word, and None when no label's trimmed text equals the cursor word.
C13_GotoFirstMatchingLabel ==
    Resolved("definition") =>
        LET sites == LabelSites(Answer.word)
            rows == {site.row : site \in sites}
        IN  IF sites = {} THEN Answer.location = None
            ELSE \E site \in sites :
                    /\ site.row = SetMin(rows)
                    /\ Answer.location = Some(Location(site))

(***************************************************************************)
(* Claims about signature help (checked under SpecSigHelp).                *)
(***************************************************************************)
\* The instruction matches on the cursor line of the request, and the first
\* one's only capture ends before the end of the document.
SigMatches == QUERY_INSTR_ANY_ARGS(doc, Answer.params.position.line)
FirstCaptureInside ==
    /\ SigMatches # <<>>
    /\ Len(SigMatches[1]) = 1
    /\ SigMatches[1][1].end_byte < Len(get_content(doc))

\* C14 (as stated): signature help produces a result only when the cursor line
\* yields exactly one instruction match, with exactly one capture that ends
\* strictly inside the document; with zero or several matches it returns None.
C14_ExactlyOneMatch ==
    (Resolved("signature") /\ Answer.help # None) =>
        Len(SigMatches) = 1 /\ FirstCaptureInside

\* C14 (amended): signature help produces a result only when the cursor line
\* yields at least one instruction match and the first match has exactly one
\* capture that ends strictly inside the document; the first match decides
\* whatever the later matches on the line are: the result is the one of a line
\* that holds the first instruction alone.  With zero matches it returns None.
C14_FirstMatchDecides ==
    Resolved("signature") =>
        /\ Answer.help # None => FirstCaptureInside
        /\ SigMatches = <<>> => Answer.help = None
        /\ FirstCaptureInside =>
              LET instr_name == utf8_text(SigMatches[1][1], get_content(doc))
                  alone == [lines |-> <<InstrsLine(<<Instr(instr_name, "lp")>>)>>,
                            eof_newline |-> TRUE]
                  first == [position |-> [line |-> 0, character |-> 0]]
              IN  Answer.help = get_sig_help_resp(alone, first, config, instruction_map).help

\* C14 witness: the cursor line holds two instructions and signature help
\* answered with the first one's mnemonic.
C14_Witness ==
    /\ Resolved("signature")
    /\ Len(SigMatches) = 2
    /\ Answer.help # None
    /\ Unwrap(Answer.help).label = doc.lines[Answer.params.position.line + 1].instrs[1].name

\* The lines of the answer that an architecture contributed, by kind.
SigLinesOf(a, kind) ==
    {j \in DOMAIN Answer.lines : Answer.lines[j].arch = a /\ Answer.lines[j].kind = kind}

\* The GAS name or the Go name of the form is the mnemonic, whatever the case.
EitherNameMatches(instr_name, form) ==
    \/ form.gas_name # None /\ eq_ignore_ascii_case(instr_name, Unwrap(form.gas_name))
    \/ form.go_name # None /\ eq_ignore_ascii_case(instr_name, Unwrap(form.go_name))

\* C15: in signature help for an x86 or x86-64 instruction a form is in the
\* output if and only if its GAS name or its Go name equals the mnemonic
\* case-insensitively, whatever the other name is.
C15_FormIncludedIffNameMatches ==
    (Resolved("signature") /\ Answer.instr_resp # None) =>
        \A a \in {"x86", "x86_64"} :
            LET found == Unwrap(Answer.instr_resp)[a]
            IN  found # None =>
                    \A i \in DOMAIN Unwrap(found).forms :
                        LET form == Unwrap(found).forms[i]
                        IN  (\E j \in SigLinesOf(a, "form") :
                                Answer.lines[j].entry = Some(form))
                            <=> EitherNameMatches(Unwrap(Answer.instr_name), form)

\* C16: in the signature-help text every architecture that contributes a line
\* has its bold heading exactly once, immediately before its first line, and an
\* architecture that contributes no line has no heading.
C16_HeadingPerContributingArch ==
    Resolved("signature") =>
        \A a \in ToSet(Archs) :
            IF SigLinesOf(a, "form") = {}
            THEN SigLinesOf(a, "heading") = {}
            ELSE SigLinesOf(a, "heading") = {SetMin(SigLinesOf(a, "form")) - 1}

(***************************************************************************)
(* Claims about document symbols (checked under SpecSymbols).              *)
(***************************************************************************)
\* The text of the first ident child of a label, "" without one.
FirstIdentText(children) ==
    LET idents == {i \in DOMAIN children : children[i].kind = "ident"}
    IN  IF idents = {} THEN "" ELSE children[SetMin(idents)].text

\* The symbols of a node as the claim describes them: a label is one symbol
\* named after its first ident child with the symbols below it as children; the
\* symbols below another node are listed in its place.
RECURSIVE SymbolsOf(_)
SymbolsOf(node) ==
    LET below == Flatten([i \in DOMAIN node.children |-> SymbolsOf(node.children[i])])
    IN  IF node.kind = "label"
        THEN <<DocumentSymbol(FirstIdentText(node.children), below)>>
        ELSE below

\* C17: every label node becomes exactly one symbol of kind function named by
\* the text of its first identifier child, the symbols found under a label are
\* its children, and the symbols under a non-label node are flattened into the
\* enclosing list.
C17_SymbolNamedByFirstIdent ==
    Resolved("symbols") => Answer.symbols = Some(SymbolsOf(doc.root))

(***************************************************************************)
(* Claims about the message loop and its channel (checked under SpecLoop). *)
(***************************************************************************)
ShutdownHandled == \E i \in DOMAIN handled : handled[i].kind = "shutdown"

\* C18: an internal error raised while a message is handled never ends the
\* message loop: the loop stops only after a shutdown request, so that every
\* message received after the error is still handled.
C18_ErrorKeepsLoopRunning ==
    ~running => ShutdownHandled

\* C19: messages are handled one at a time in arrival order: a message is
\* handled only as the oldest of the channel, the stores change only within the
\* handling of a message and are then the ones its handler leaves, and once a
\* shutdown request has been handled no message is handled and no store changes.
C19_OneAtATimeInOrder ==
    [][/\ handled' # handled =>
             /\ inbox # <<>>
             /\ handled' = Append(handled, Head(inbox))
             /\ inbox' = Tail(inbox)
             /\ text_store' = dispatch(Head(inbox), text_store, tree_store).text_store
             /\ tree_store' = dispatch(Head(inbox), text_store, tree_store).tree_store
       /\ (text_store' # text_store \/ tree_store' # tree_store) => handled' # handled
       /\ ShutdownHandled =>
             /\ handled' = handled
             /\ text_store' = text_store
             /\ tree_store' = tree_store]_vars

\* C19 witness: two messages or more were handled, the last one a shutdown
\* request, a document is open, and a message sent later waits in the channel.
C19_Witness ==
    /\ Len(handled) >= 3
    /\ handled[Len(handled)].kind = "shutdown"
    /\ \E uri \in Uris : text_store[uri] # None /\ Len(Unwrap(text_store[uri])) = 2
    /\ inbox # <<>>
    /\ ~running

(***************************************************************************)
(* Claims about instr_filter_targets (checked under SpecFilter).           *)
(***************************************************************************)
\* The dialects: GAS and Go are assemblers, Z80 is enabled as instruction set.
DialectOn(dialect) ==
    CASE dialect = "gas" -> GateOn(config.assemblers.gas)
      [] dialect = "go" -> GateOn(config.assemblers.go)
      [] dialect = "z80" -> GateOn(config.instruction_sets.z80)
SlotOf(form, dialect) ==
    CASE dialect = "gas" -> form.gas_name
      [] dialect = "go" -> form.go_name
      [] dialect = "z80" -> form.z80_name
Dialects == {"gas", "go", "z80"}

\* The forms of the input that an enabled dialect names, in order.
NamedForms ==
    LET Named(form) == \E x \in Dialects : DialectOn(x) /\ SlotOf(form, x) # None
    IN  SelectSeq(Answer.instr.forms, Named)

\* The kept forms are the forms an enabled dialect names, in the input order,
\* and of the instruction nothing but the forms differs.
KeptAreNamed ==
    /\ Len(Answer.filtered.forms) = Len(NamedForms)
    /\ Answer.filtered = [Answer.instr EXCEPT !.forms = Answer.filtered.forms]

\* C20 (as stated): a form is kept exactly when an enabled dialect names it,
\* and in every kept form the name slot of each disabled dialect (GAS, Go, Z80)
\* is null and the slot of each enabled dialect is unchanged.
C20_DisabledSlotsNull ==
    Resolved("filter") =>
        /\ KeptAreNamed
        /\ \A i \in DOMAIN Answer.filtered.forms : \A x \in Dialects :
              SlotOf(Answer.filtered.forms[i], x) =
                  IF DialectOn(x) THEN SlotOf(NamedForms[i], x) ELSE None

\* C20 (amended): a form is kept exactly when an enabled dialect names it; in
\* every kept form the GAS and the Go slot are null when their assembler is
\* disabled and unchanged when it is enabled, and the Z80 slot is unchanged
\* whether the Z80 instruction set is enabled or not.
C20_DisabledAssemblerSlotsNull ==
    Resolved("filter") =>
        /\ KeptAreNamed
        /\ \A i \in DOMAIN Answer.filtered.forms : \A x \in Dialects :
              SlotOf(Answer.filtered.forms[i], x) =
                  IF x = "z80" \/ DialectOn(x) THEN SlotOf(NamedForms[i], x) ELSE None

\* C20 witness: of two forms the one no enabled dialect names was dropped, and
\* the kept one lost the name of a disabled assembler and kept the name of the
\* enabled one.
C20_Witness ==
    /\ Resolved("filter")
    /\ Len(Answer.instr.forms) = 2
    /\ Len(Answer.filtered.forms) = 1
    /\ \E x, y \in {"gas", "go"} :
          /\ DialectOn(x) /\ ~DialectOn(y)
          /\ SlotOf(NamedForms[1], x) # None /\ SlotOf(NamedForms[1], y) # None
          /\ SlotOf(Answer.filtered.forms[1], x) = SlotOf(NamedForms[1], x)
          /\ SlotOf(Answer.filtered.forms[1], y) = None

\* C21: in the directive stage of hover, whenever NASM is enabled and the bare
\* word is no directive of an enabled assembler, the word with a '%' before it
\* is looked up and its hit is the hover, whichever other assemblers are enabled.
C21_NasmTriesPercentVariant ==
    Resolved("hover") =>
        LET word == Answer.word
            bare == get_directive_hover_resp(word, directive_map, config)
            prefixed == get_directive_hover_resp("%" \o word, directive_map, config)
        IN  (/\ GateOn(config.assemblers.nasm)
             /\ get_instr_hover_resp(word, instruction_map, config) = None
             /\ bare = None
             /\ prefixed # None)
            => Answer.hover = prefixed

(***************************************************************************)
(* Claims about get_label_resp (checked under SpecLabelHover).             *)
(***************************************************************************)
\* The matches of the label-and-data pattern whose two captures end before the
\* end of the document, by their position in document order.
UsableLabelMatches ==
    LET text == get_content(doc)
        matches == QUERY_LABEL_DATA(doc)
    IN  {k \in DOMAIN matches :
            /\ matches[k][1].end_byte < Len(text)
            /\ matches[k][2].end_byte < Len(text)}
LabelTextOf(k) == utf8_text(QUERY_LABEL_DATA(doc)[k][1], get_content(doc))
LabelDataOf(k) == utf8_text(QUERY_LABEL_DATA(doc)[k][2], get_content(doc))

\* The hover of the first of the matches `hits`, None when there is none.
LabelHoverIs(hits) ==
    IF hits = {} THEN Answer.hover = None
    ELSE Answer.hover = Some(Hover(CodeMark \o LabelDataOf(SetMin(hits)) \o CodeMark))

\* The word without one leading '.'.
StripOneDot(word) ==
    IF Len(word) > 0 /\ SubSeq(word, 1, 1) = "." THEN SubSeq(word, 2, Len(word)) ELSE word

\* A row of n dots.
RECURSIVE Dots(_)
Dots(n) == IF n = 0 THEN "" ELSE "." \o Dots(n - 1)

InsideCaptures(matches) ==
    {c.node : c \in {c \in ToSet(NumberedCaptures(matches)) :
                        c.node.end_byte < Len(get_content(doc))}}

\* C23: in label hover, completion, goto-definition and references no capture
\* that ends at or after the end of the document contributes to the response:
\* each response is made of captures that end inside the document only.
C23_CapturesAtEndDiscarded ==
    /\ (/\ Resolved("hover")
        /\ Answer.hover # None
        /\ \A k \in {1, 2, 3, 5, 6} : StageResults(Answer.word)[k] # Answer.hover)
       => \E k \in UsableLabelMatches :
             Answer.hover = Some(Hover(CodeMark \o LabelDataOf(k) \o CodeMark))
    /\ (Resolved("completion") /\ Answer.branch = "directive")
       => \E node \in InsideCaptures(QUERY_DIRECTIVE(doc, Answer.params.position.line)) :
             cursor_matches(Answer.params.position.line,
                            Answer.params.position.character, node)
    /\ (Resolved("completion") /\ Answer.branch \in {"instr", "operand"})
       => /\ \E node \in InsideCaptures(QUERY_INSTR_ANY(doc, Answer.params.position.line)) :
                cursor_matches(Answer.params.position.line,
                               Answer.params.position.character, node)
          /\ \A i \in DOMAIN Unwrap(Answer.list).items :
                Unwrap(Answer.list).items[i].kind = "VARIABLE"
                => \E node \in InsideCaptures(QUERY_LABEL_IDENT(doc)) :
                      utf8_text(node, get_content(doc)) = Unwrap(Answer.list).items[i].label
    /\ (Resolved("definition") /\ Answer.location # None)
       => \E node \in InsideCaptures(QUERY_LABEL(doc)) :
             Answer.location = Some(Location(node))
    /\ Resolved("references")
       => \A loc \in Answer.refs :
             \E node \in InsideCaptures(QUERY_LABEL(doc)) \cup InsideCaptures(QUERY_WORD(doc)) :
                loc = Location(node)

(***************************************************************************)
(* Claims about query-based completion (checked under SpecEngine).         *)
(***************************************************************************)
\* The captures of the instruction pattern on the cursor line the cursor lies
\* in, by their place in match order and then capture order.
InstrCaptures == NumberedCaptures(QUERY_INSTR_ANY(doc, Answer.params.position.line))
CursorCaptures ==
    {k \in DOMAIN InstrCaptures :
        cursor_matches(Answer.params.position.line, Answer.params.position.character,
                       InstrCaptures[k].node)}
DirectiveHoldsCursor ==
    \E c \in ToSet(NumberedCaptures(QUERY_DIRECTIVE(doc, Answer.params.position.line))) :
        cursor_matches(Answer.params.position.line, Answer.params.position.character, c.node)

\* The completions of `comps` whose tag is enabled, each label once, the first
\* entry of a label being the one kept.
KeptItems(comps, gates) ==
    LET Keep(e) ==
            /\ GateOn(gates[e.tag])
            /\ e = comps[SetMin({j \in DOMAIN comps :
                                    /\ GateOn(gates[comps[j].tag])
                                    /\ comps[j].item.label = e.item.label})]
        kept == SelectSeq(comps, Keep)
    IN  [i \in DOMAIN kept |-> kept[i].item]

\* The synthetic items of the label names of the document.
LabelItems ==
    {CompletionItem(doc.lines[i].name, "VARIABLE", "") :
        i \in {i \in DOMAIN doc.lines : HasLabel(doc.lines[i])}}

UnsetAsDisabled(cfg) ==
    LET Off(gates) == [t \in DOMAIN gates |->
                          IF gates[t] = None THEN Some(FALSE) ELSE gates[t]]
    IN  [instruction_sets |-> Off(cfg.instruction_sets),
         assemblers |-> Off(cfg.assemblers)]

\* C25: a gate that is unset is treated as disabled by every lookup, hover
\* branch and completion branch: no lookup returns a record of an unset tag, no
\* completion item comes from a record of an unset tag only, and the response is
\* the one the same request gets with every unset gate set to false.
C25_UnsetIsDisabled ==
    /\ Resolved("hover") =>
          /\ \A a \in ToSet(Archs) :
                config.instruction_sets[a] = None
                => Answer.instr_resp[a] = None /\ Answer.reg_resp[a] = None
          /\ \A a \in ToSet(Assemblers) :
                config.assemblers[a] = None => Answer.dir_resp[a] = None
          /\ Answer.hover = get_hover_resp(UnsetAsDisabled(config), Answer.word, doc,
                                           instruction_map, register_map,
                                           directive_map, include_dirs)
    /\ Resolved("completion") =>
          /\ Answer.list # None =>
                \A i \in DOMAIN Unwrap(Answer.list).items :
                    LET item == Unwrap(Answer.list).items[i]
                    IN  \/ item.documentation = ""
                        \/ \E e \in ToSet(instr_comps(FALSE)) \cup ToSet(reg_comps(FALSE)) :
                              e.item = item /\ config.instruction_sets[e.tag] # None
                        \/ \E e \in ToSet(dir_comps(FALSE)) :
                              e.item = item /\ config.assemblers[e.tag] # None
          /\ Answer.list =
                get_comp_resp(doc, Answer.params, UnsetAsDisabled(config),
                              instr_comps(Answer.map_rev), dir_comps(Answer.map_rev),
                              reg_comps(Answer.map_rev), Answer.set_rev).list

\* C25 witness: the hovered word is a register of an architecture whose gate is
\* unset and of an enabled one, and the hover holds the enabled one's record.
C25_Witness ==
    /\ Resolved("hover")
    /\ Answer.hover # None
    /\ \E a, b \in ToSet(Archs) :
          /\ config.instruction_sets[a] = None
          /\ get(register_map, a, Answer.word) # None
          /\ Answer.reg_resp[a] = None
          /\ GateOn(config.instruction_sets[b])
          /\ Answer.reg_resp[b] # None
          /\ get_instr_hover_resp(Answer.word, instruction_map, config) = None

(***************************************************************************)
(* Claims about get_root_config (checked under SpecRootConfig).            *)
(***************************************************************************)
\* The configuration file get_root_config chose, None when it found none, and
\* the configuration it returned.
ChosenFile ==
    IF Answer.proj_cfg # None THEN Answer.proj_cfg ELSE Answer.global_cfg
Returned == Answer.root_config
ReturnedProjects ==
    IF Returned.projects = None THEN <<>> ELSE Unwrap(Returned.projects)

\* Both gates are set.
GatesSet(cfg) == cfg.opts.diagnostics # None /\ cfg.opts.default_diagnostics # None

\* Each gate of `after` is the gate of `before`, or true where that was unset.
DefaultedFrom(before, after) ==
    \A g \in {"diagnostics", "default_diagnostics"} :
        after.opts[g] = IF before.opts[g] = None THEN Some(TRUE) ELSE before.opts[g]

NotAfter(a, b) == project_cmp(a, b) # "Greater"

\* The comparator is a total preorder on the projects `ps`: the two directions
\* of a comparison agree, and not-after is transitive.
ConsistentOn(ps) ==
    /\ \A a, b \in ps :
          /\ project_cmp(a, b) = "Less" <=> project_cmp(b, a) = "Greater"
          /\ project_cmp(a, b) = "Equal" <=> project_cmp(b, a) = "Equal"
    /\ \A a, b, c \in ps : (NotAfter(a, b) /\ NotAfter(b, c)) => NotAfter(a, c)

\* C27: after get_root_config every project whose path is a file precedes every
\* project whose path is a directory, among the directories a longer path
\* precedes a shorter one, and the comparator is a consistent total preorder on
\* the project paths.
C27_ProjectsByPrecedence ==
    Resolved("root_config") =>
        /\ \A i, j \in DOMAIN ReturnedProjects :
              /\ (is_file(ReturnedProjects[i].path) /\ is_dir(ReturnedProjects[j].path))
                 => i < j
              /\ (/\ is_dir(ReturnedProjects[i].path)
                  /\ is_dir(ReturnedProjects[j].path)
                  /\ Len(ReturnedProjects[i].path) > Len(ReturnedProjects[j].path))
                 => i < j
        /\ ConsistentOn(ToSet(ReturnedProjects))

(***************************************************************************)
(* Claims about text_doc_change_to_ts_edit (checked under SpecEdit).       *)
(***************************************************************************)
\* The tree_sitter::Point of a byte offset of a text.
PointAt(text, offset) ==
    [row |-> position_at(text, offset).line,
     column |-> position_at(text, offset).character]

\* C28: the edit hint of a ranged change has start_byte and old_end_byte equal
\* to the offsets of the range's start and end in the text before the edit,
\* new_end_byte = start_byte + the length of the inserted text, start_byte <=
\* old_end_byte, and each of its three points is the position of its byte
\* offset, new_end_position being taken in the text after the edit.
C28_EditHintOffsetsAndPoints ==
    Resolved("edit") =>
        LET edit == Answer.edit
            range == Unwrap(Answer.change.range)
        IN  /\ edit.err = ""
            /\ edit.start_byte = offset_at(Answer.text, range.start)
            /\ edit.old_end_byte = offset_at(Answer.text, range.end)
            /\ edit.new_end_byte = edit.start_byte + Len(Answer.change.text)
            /\ edit.start_byte <= edit.old_end_byte
            /\ edit.start_position = PointAt(Answer.text, edit.start_byte)
            /\ edit.old_end_position = PointAt(Answer.text, edit.old_end_byte)
            /\ edit.new_end_position = PointAt(Answer.updated, edit.new_end_byte)

(***************************************************************************)
(* Claims about find_word_at_pos (checked under SpecWord).                 *)
(***************************************************************************)
\* The character of the line at index i (from 0) is an identifier character.
IdentAt(i) ==
    LET c == SubSeq(Answer.line, i + 1, i + 1)
    IN  is_alphanumeric(c) \/ c = "_" \/ c = "."

\* C29: for a column not greater than the length of the line, find_word_at_pos
\* returns (start, end) with start <= col <= end <= the length of the line, the
\* characters of [start, end) are identifier characters (alphanumeric, '_' or
\* '.'), the span is maximal, and the slice [start..end] of the line that
\* get_word_from_pos_params takes is in bounds: taking it succeeds.
C29_WordSpanInBounds ==
    Resolved("word") =>
        LET start == Answer.bounds.start
            end == Answer.bounds.end
        IN  /\ start <= Answer.col
            /\ Answer.col <= end
            /\ end <= Len(Answer.line)
            /\ \A i \in start..(end - 1) : IdentAt(i)
            /\ start > 0 => ~IdentAt(start - 1)
            /\ end < Len(Answer.line) => ~IdentAt(end)
            /\ Answer.word # None

(***************************************************************************)
(* Claims about words with dots (checked under SpecEngine).                *)
(***************************************************************************)
\* The cursor word begins or ends with a dot.
DotAtAnEnd(word) ==
    /\ Len(word) > 0
    /\ SubSeq(word, 1, 1) = "." \/ SubSeq(word, Len(word), Len(word)) = "."

\* C30: the cursor word may hold '.', the capture text it is compared with has
\* lost every leading and trailing character that is neither alphanumeric nor
\* '_'; so for a cursor word that begins or ends with '.' goto-definition
\* returns None and references returns no location, whatever the document.
C30_DottedWordNeverFound ==
    /\ (Resolved("definition") /\ DotAtAnEnd(Answer.word)) => Answer.location = None
    /\ (Resolved("references") /\ DotAtAnEnd(Answer.word)) => Answer.refs = {}

\* C30 witness: the cursor is on the operand of an instruction, the word is the
\* text of a label of the document and begins or ends with a dot, and
\* goto-definition returned None.
C30_Witness ==
    /\ Resolved("definition")
    /\ DotAtAnEnd(Answer.word)
    /\ Answer.params.position.line = 1
    /\ \E i \in DOMAIN doc.lines :
          HasLabel(doc.lines[i]) /\ doc.lines[i].name = Answer.word
    /\ Answer.location = None

====
